---- MODULE Spec2Model ----
(***************************************************************************)
(* Model of the sandbox execution pipeline of smollm-sandbox:              *)
(*   Executor.ExecuteCode / Executor.ExecuteFile / copyFile                *)
(*   Compiler.Compile                                                      *)
(* The working directory is a map from path strings to files, a launched   *)
(* program is a process that follows the instructions its file denotes,    *)
(* and every request is one goroutine with a program counter.              *)
(***************************************************************************)
EXTENDS Integers, Sequences, FiniteSets, TLC

(***************************************************************************)
(* Bounds of the model.                                                    *)
(***************************************************************************)
\* largest reading of time.Now().UnixNano() (abstract ticks)
MaxClock == 1
\* the output cap e.maxOutputSize, in bytes (scaled down: the program
\* constant MAX_OUTPUT_SIZE is 1 MiB)
maxOutputSize == 8
\* most children a launched program forks
MaxKids == 1

\* the largest file CheckFileSecurity accepts, in bytes (10 MiB in the source,
\* scaled down)
maxSize == 8

(***************************************************************************)
(* Program constants.                                                      *)
(***************************************************************************)
TIMEOUT_SECONDS == 30
WORK_DIR == "/tmp/smollm-sandbox"

Reqs == {"r1", "r2"}

(***************************************************************************)
(* strings / path/filepath                                                 *)
(***************************************************************************)
Char(s, i) == SubSeq(s, i, i)

LowerOf(c) ==
  CASE c = "A" -> "a" [] c = "B" -> "b" [] c = "C" -> "c" [] c = "D" -> "d"
    [] c = "E" -> "e" [] c = "F" -> "f" [] c = "G" -> "g" [] c = "H" -> "h"
    [] c = "I" -> "i" [] c = "J" -> "j" [] c = "K" -> "k" [] c = "L" -> "l"
    [] c = "M" -> "m" [] c = "N" -> "n" [] c = "O" -> "o" [] c = "P" -> "p"
    [] c = "Q" -> "q" [] c = "R" -> "r" [] c = "S" -> "s" [] c = "T" -> "t"
    [] c = "U" -> "u" [] c = "V" -> "v" [] c = "W" -> "w" [] c = "X" -> "x"
    [] c = "Y" -> "y" [] c = "Z" -> "z" [] OTHER -> c

RECURSIVE ToLowerFrom(_, _)
ToLowerFrom(s, i) ==
  IF i > Len(s) THEN "" ELSE LowerOf(Char(s, i)) \o ToLowerFrom(s, i + 1)

\* strings.ToLower
ToLower(s) == ToLowerFrom(s, 1)

\* strings.HasPrefix
HasPrefix(s, p) == Len(s) >= Len(p) /\ SubSeq(s, 1, Len(p)) = p

\* strings.HasSuffix
HasSuffix(s, x) == Len(s) >= Len(x) /\ SubSeq(s, Len(s) - Len(x) + 1, Len(s)) = x

\* strings.TrimSuffix
TrimSuffix(s, x) == IF HasSuffix(s, x) THEN SubSeq(s, 1, Len(s) - Len(x)) ELSE s

\* index of the last "/" of s at or before i, 0 when there is none
RECURSIVE LastSlash(_, _)
LastSlash(s, i) ==
  IF i = 0 THEN 0 ELSE IF Char(s, i) = "/" THEN i ELSE LastSlash(s, i - 1)

\* filepath.Base (paths here are clean: no trailing slash, never empty)
Base(p) == SubSeq(p, LastSlash(p, Len(p)) + 1, Len(p))

\* filepath.Ext: the suffix beginning at the final dot of the last element
RECURSIVE ExtFrom(_, _)
ExtFrom(p, i) ==
  IF i = 0 \/ Char(p, i) = "/" THEN ""
  ELSE IF Char(p, i) = "." THEN SubSeq(p, i, Len(p))
  ELSE ExtFrom(p, i - 1)

Ext(p) == ExtFrom(p, Len(p))

\* strings.Contains
RECURSIVE ContainsFrom(_, _, _)
ContainsFrom(s, x, i) ==
  IF i + Len(x) - 1 > Len(s) THEN FALSE
  ELSE IF SubSeq(s, i, i + Len(x) - 1) = x THEN TRUE
  ELSE ContainsFrom(s, x, i + 1)

Contains(s, x) == ContainsFrom(s, x, 1)

\* filepath.Join of a directory and one element
Join(d, name) == d \o "/" \o name

VARIABLES fs, clock, pc, call, loc, proc, executions, env, environment, last,
          logger, collector, smollm, sessions

vars == <<fs, clock, pc, call, loc, proc, executions, env, environment, last,
          logger, collector, smollm, sessions>>

(***************************************************************************)
(* The file system: a map from the paths that exist to their files.  A     *)
(* file has its bytes (data), the request that created it (creator, "env"  *)
(* for a file that was there before any request) and whether it can be     *)
(* opened for reading (readable); dir tells a directory from a file.       *)
(***************************************************************************)
File(data, creator, readable) ==
  [data |-> data, creator |-> creator, readable |-> readable, dir |-> FALSE]

Directory == [data |-> "", creator |-> "env", readable |-> TRUE, dir |-> TRUE]

Exists(f, p) == p \in DOMAIN f

\* os.Create / O_CREATE|O_TRUNC followed by a write of data: an existing file
\* keeps its identity and mode, a new one belongs to who
PutFile(f, p, data, who) ==
  [q \in DOMAIN f \cup {p} |->
     IF q = p
       THEN (IF p \in DOMAIN f THEN [f[p] EXCEPT !.data = data] ELSE File(data, who, TRUE))
       ELSE f[q]]

\* os.Chmod(p, 0755)
Chmod(f, p) == [f EXCEPT ![p].readable = TRUE]

\* os.Remove
RemoveFile(f, p) == [q \in DOMAIN f \ {p} |-> f[q]]

\* copyFile(src, dst): os.Open(src); os.Create(dst) truncates dst (and fails
\* on a directory); io.Copy then reads what src holds now (and fails on a
\* directory, dst left empty); os.Chmod(dst, 0755)
copyFile(f, src, dst, who) ==
  IF ~Exists(f, src) \/ ~f[src].readable
    THEN [err |-> TRUE, fs |-> f]
  ELSE IF Exists(f, dst) /\ f[dst].dir
    THEN [err |-> TRUE, fs |-> f]
  ELSE IF f[src].dir
    THEN [err |-> TRUE, fs |-> PutFile(f, dst, "", who)]
    ELSE LET created == PutFile(f, dst, "", who)
             copied == PutFile(created, dst, created[src].data, who)
         IN [err |-> FALSE, fs |-> Chmod(copied, dst)]

(***************************************************************************)
(* What a file denotes.  A source is named by the program it holds; the    *)
(* compiler turns a source p into the binary "elf:" \o p.                  *)
(*   hello   prints the literal and exits 0                                *)
(*   fail    writes to stderr and exits 1                                  *)
(*   loop    never exits                                                   *)
(*   spam    prints as many bytes as the output cap, then one more, and    *)
(*           exits 0                                                       *)
(*   daemon  forks children that keep running (and keep its stdout and     *)
(*           stderr open), then exits 0                                    *)
(*   syntax  does not parse                                                *)
(*   ice     makes the compiler exit with a code it has no message for     *)
(*   hangcc  makes the compiler run forever                                *)
(*   noout   makes the compiler exit 0 without writing its output file     *)
(*   ""      the empty file                                                *)
(***************************************************************************)
Literal == "literal"

Out(s) == [op |-> "out", arg |-> s, code |-> 0]
Err(s) == [op |-> "err", arg |-> s, code |-> 0]
Exit(n) == [op |-> "exit", arg |-> "", code |-> n]
Fork == [op |-> "fork", arg |-> "", code |-> 0]
Hang == [op |-> "hang", arg |-> "", code |-> 0]

RECURSIVE Repeat(_, _)
Repeat(s, n) == IF n = 0 THEN "" ELSE s \o Repeat(s, n - 1)

Instr(prog) ==
  CASE prog = "hello" -> <<Out(Literal), Exit(0)>>
    [] prog = "fail" -> <<Err("boom"), Exit(1)>>
    [] prog = "loop" -> <<Hang>>
    [] prog = "spam" -> <<Out(Repeat("x", maxOutputSize)), Out("x"), Exit(0)>>
    [] prog = "daemon" -> [i \in 1..MaxKids |-> Fork] \o <<Exit(0)>>
    [] prog = "" -> <<Exit(0)>>
    [] OTHER -> <<Err("diag"), Exit(1)>>

IsElf(data) == HasPrefix(data, "elf:")

ElfProg(data) == SubSeq(data, 5, Len(data))

IsCompiled(ext) == ext = ".c" \/ ext = ".cpp" \/ ext = ".go"

IsInterpreted(ext) == ext = ".py" \/ ext = ".js" \/ ext = ".sh"

\* what the compiler process does with the source it is given: whether it
\* ever exits, its exit code, its stderr, and the artifact it writes
CompilerRun(f, sourcePath) ==
  LET data == IF Exists(f, sourcePath) THEN f[sourcePath].data ELSE "syntax"
  IN CASE data = "hangcc" ->
            [exits |-> FALSE, code |-> 0, stderr |-> "", writes |-> FALSE, artifact |-> ""]
       [] data \in {"syntax", ""} \/ ~Exists(f, sourcePath) \/ IsElf(data) ->
            [exits |-> TRUE, code |-> 1, stderr |-> "diag", writes |-> FALSE, artifact |-> ""]
       [] data = "ice" ->
            [exits |-> TRUE, code |-> 4, stderr |-> "diag", writes |-> FALSE, artifact |-> ""]
       [] data = "noout" ->
            [exits |-> TRUE, code |-> 0, stderr |-> "", writes |-> FALSE, artifact |-> ""]
       [] OTHER ->
            [exits |-> TRUE, code |-> 0, stderr |-> "", writes |-> TRUE,
             artifact |-> "elf:" \o data]

(***************************************************************************)
(* Compiler (internal/sandbox/compiler.go)                                 *)
(***************************************************************************)
\* NewCompiler: the profiles, by extension
CompilerConfigs ==
  [e \in {".py", ".js", ".go", ".c", ".cpp", ".sh"} |->
     [NeedsCompiled |-> IsCompiled(e),
      OutputFlag |-> IF IsCompiled(e) THEN "-o" ELSE "",
      ErrorCodes |-> (1 :> ("compile-error" \o e))]]

NoCompileResult == [Success |-> FALSE, OutputFile |-> "", Error |-> "", CompileTime |-> "unset"]

\* the name Compile gives the artifact
OutputFileOf(sourcePath) ==
  LET ext == ToLower(Ext(sourcePath))
      outputFile == TrimSuffix(sourcePath, ext)
  IN IF ext = ".c" \/ ext = ".cpp" THEN outputFile \o ".out" ELSE outputFile

\* a Compile that takes the compiler's exit code 0 as success without
\* looking for the output file
CompileNoArtifactCheck(f, sourcePath, started, who) ==
  LET ext == ToLower(Ext(sourcePath))
      outputFile == OutputFileOf(sourcePath)
  IN IF ext \notin DOMAIN CompilerConfigs
       THEN [err |-> "unsupported_type", res |-> NoCompileResult, fs |-> f]
     ELSE LET config == CompilerConfigs[ext]
              run == CompilerRun(f, sourcePath)
              f2 == IF started /\ run.writes /\ config.NeedsCompiled
                      THEN PutFile(f, outputFile, run.artifact, who) ELSE f
          IN IF ~started
               THEN [err |-> "nil", fs |-> f,
                     res |-> [Success |-> FALSE, OutputFile |-> "",
                              Error |-> "compiler-start-error", CompileTime |-> "elapsed"]]
             ELSE IF run.code # 0
               THEN [err |-> "nil", fs |-> f,
                     res |-> [Success |-> FALSE, OutputFile |-> "",
                              Error |-> IF run.code \in DOMAIN config.ErrorCodes
                                          THEN config.ErrorCodes[run.code] \o ": " \o run.stderr
                                          ELSE run.stderr,
                              CompileTime |-> "elapsed"]]
             ELSE [err |-> "nil",
                   fs |-> IF config.NeedsCompiled /\ Exists(f2, outputFile)
                            THEN Chmod(f2, outputFile) ELSE f2,
                   res |-> [Success |-> TRUE, OutputFile |-> outputFile,
                            Error |-> "", CompileTime |-> "elapsed"]]

\* Compiler.Compile once the compiler process has ended (cmd.Run returned);
\* started = FALSE is cmd.Run failing to start the compiler at all.
\* Gives the error, the CompileResult and the file system afterwards.
Compile(f, sourcePath, started, who) ==
  LET ext == ToLower(Ext(sourcePath))
      outputFile == OutputFileOf(sourcePath)
  IN IF ext \notin DOMAIN CompilerConfigs
       THEN [err |-> "unsupported_type", res |-> NoCompileResult, fs |-> f]
     ELSE LET config == CompilerConfigs[ext]
              run == CompilerRun(f, sourcePath)
              f2 == IF started /\ run.writes /\ config.NeedsCompiled
                      THEN PutFile(f, outputFile, run.artifact, who) ELSE f
          IN IF ~started
               THEN [err |-> "nil", fs |-> f,
                     res |-> [Success |-> FALSE, OutputFile |-> "",
                              Error |-> "compiler-start-error", CompileTime |-> "elapsed"]]
             ELSE IF run.code # 0
               THEN [err |-> "nil", fs |-> f,
                     res |-> [Success |-> FALSE, OutputFile |-> "",
                              Error |-> IF run.code \in DOMAIN config.ErrorCodes
                                          THEN config.ErrorCodes[run.code] \o ": " \o run.stderr
                                          ELSE run.stderr,
                              CompileTime |-> "elapsed"]]
             ELSE IF config.NeedsCompiled /\ ~Exists(f2, outputFile)
               THEN [err |-> "nil", fs |-> f2,
                     res |-> [Success |-> FALSE, OutputFile |-> "",
                              Error |-> "no-output-file", CompileTime |-> "elapsed"]]
             ELSE [err |-> "nil",
                   fs |-> IF config.NeedsCompiled THEN Chmod(f2, outputFile) ELSE f2,
                   res |-> [Success |-> TRUE, OutputFile |-> outputFile,
                            Error |-> "", CompileTime |-> "elapsed"]]

(***************************************************************************)
(* Executor (ExecuteFile, ExecuteCode)                                     *)
(***************************************************************************)
\* NewExecutor: e.timeouts
timeouts ==
  [e \in {".py", ".js", ".go", ".c", ".cpp", ".sh"} |->
     IF IsCompiled(e) THEN TIMEOUT_SECONDS * 2 ELSE TIMEOUT_SECONDS]

\* ExecuteCode's switch on strings.ToLower(language); "" is its default case
LanguageExt(language) ==
  LET l == ToLower(language)
  IN CASE l = "python" -> ".py"
       [] l \in {"javascript", "js"} -> ".js"
       [] l \in {"go", "golang"} -> ".go"
       [] l = "c" -> ".c"
       [] l \in {"cpp", "c++"} -> ".cpp"
       [] l \in {"bash", "sh"} -> ".sh"
       [] OTHER -> ""

\* fmt.Sprintf("tmp_%d%s", timestamp, ext) joined to the working directory
TempPath(timestamp, ext) == Join(WORK_DIR, "tmp_" \o ToString(timestamp) \o ext)

NoError == [kind |-> "nil", code |-> 0, seconds |-> 0]
ExitError(n) == [kind |-> "ExitError", code |-> n, seconds |-> 0]
TimeoutError(t) == [kind |-> "timeout", code |-> 0, seconds |-> t]
OverflowError == [kind |-> "overflow", code |-> 0, seconds |-> 0]

NoResult ==
  [nil |-> TRUE, Success |-> FALSE, Output |-> "", Error |-> "", ExitCode |-> 0,
   ExecuteTime |-> "zero", CompileTime |-> "zero", Compiled |-> FALSE, Language |-> ""]

\* a compile-failure result that records a run time
CompileFailureResultTimed(compileResult, ext) ==
  [nil |-> FALSE, Success |-> FALSE, Output |-> "", Error |-> compileResult.Error,
   ExitCode |-> 0, ExecuteTime |-> "elapsed", CompileTime |-> compileResult.CompileTime,
   Compiled |-> TRUE, Language |-> ext]

\* the result ExecuteFile returns when compilation failed
CompileFailureResult(compileResult, ext) ==
  [nil |-> FALSE, Success |-> FALSE, Output |-> "", Error |-> compileResult.Error,
   ExitCode |-> 0, ExecuteTime |-> "zero", CompileTime |-> compileResult.CompileTime,
   Compiled |-> TRUE, Language |-> ext]

\* the check of the output size after the select
CapCheck(executeErr, stdout) ==
  IF Len(stdout) > maxOutputSize THEN OverflowError ELSE executeErr

\* a result built from the error of the select as it is, with no check of
\* the output size
RunResultUnchecked(selected, stdout, stderr, ext, compiled, compileResult) ==
  [nil |-> FALSE, Success |-> selected.kind = "nil", Output |-> stdout, Error |-> stderr,
   ExitCode |-> IF selected.kind = "ExitError" THEN selected.code ELSE 0,
   ExecuteTime |-> "elapsed",
   CompileTime |-> IF compiled THEN compileResult.CompileTime ELSE "zero",
   Compiled |-> compiled, Language |-> ext]

\* the result ExecuteFile builds after the select
RunResult(selected, stdout, stderr, ext, compiled, compileResult) ==
  LET executeErr == CapCheck(selected, stdout)
      success == executeErr.kind = "nil"
      exitCode == IF executeErr.kind = "ExitError" THEN executeErr.code ELSE 0
  IN [nil |-> FALSE, Success |-> success, Output |-> stdout, Error |-> stderr,
      ExitCode |-> exitCode, ExecuteTime |-> "elapsed",
      CompileTime |-> IF compiled THEN compileResult.CompileTime ELSE "zero",
      Compiled |-> compiled, Language |-> ext]

(***************************************************************************)
(* Environment (Execute, ExecuteCode): the text report.  The texts are the *)
(* source's, in English.                                                   *)
(***************************************************************************)
\* "Execution error (code %d):\n", Error and "\n" if there is one, then the
\* program's output under its own heading if there is any
ExecutionErrorReport(result) ==
  "Execution error (code " \o ToString(result.ExitCode) \o "):\n"
    \o (IF result.Error # "" THEN result.Error \o "\n" ELSE "")
    \o (IF result.Output # "" THEN "\nProgram output:\n" \o result.Output ELSE "")

\* the report of Environment.Execute
ExecuteReport(result) ==
  IF result.Success
    THEN "Execution succeeded in " \o result.ExecuteTime \o "\n\n" \o result.Output
    ELSE ExecutionErrorReport(result)

\* the report of Environment.ExecuteCode
ExecuteCodeReport(result) ==
  IF result.Success
    THEN "Execution succeeded in " \o result.ExecuteTime \o "\n\n"
           \o (IF result.Compiled
                 THEN "Compile time: " \o result.CompileTime \o "\n" ELSE "")
           \o result.Output
  ELSE IF result.Compiled /\ ~result.Success
    THEN "Compile error:\n" \o result.Error
  ELSE ExecutionErrorReport(result)

\* NewEnvironment: e.timeouts (a table of its own, with no entry for .sh)
EnvironmentTimeouts ==
  [e \in {".py", ".js", ".go", ".c", ".cpp"} |->
     IF e \in {".go", ".c", ".cpp"} THEN TIMEOUT_SECONDS * 2 ELSE TIMEOUT_SECONDS]

\* the last call of an operation that is no request (Compile,
\* CheckFileSecurity, CleanupTempFiles) and what it returned
NoLast == [op |-> "none"]

\* what Environment.Execute or Environment.ExecuteCode returned to its caller
NoReport == [returned |-> FALSE, output |-> "", err |-> "nil"]

(***************************************************************************)
(* Processes                                                               *)
(***************************************************************************)
\* state: none | running | exited | killed.  kidsIn: live children in the
\* leader's process group; kidsOut: live children that left it (setsid).
\* signals: what has been sent to the process, in order.  intime: the leader
\* exited while the deadline of the request had not passed.  copying: the
\* goroutines that copy the pipes into the buffers had not finished when
\* ExecuteFile read the buffers; stdout and stderr are from then on what it
\* read.
NoProc ==
  [state |-> "none", code |-> <<>>, ip |-> 1, exit |-> 0, stdout |-> "", stderr |-> "",
   kidsIn |-> 0, kidsOut |-> 0, signals |-> <<>>, intime |-> FALSE, copying |-> FALSE]

\* a cooperative signal to the leader alone, which a program may ignore
TermLeader(p) ==
  [p EXCEPT !.signals = Append(@, [sig |-> "SIGTERM", to |-> "leader"])]

\* SIGKILL to the leader alone (the pid, not its negation)
KillLeader(p) ==
  [p EXCEPT !.state = IF @ = "running" THEN "killed" ELSE @,
            !.signals = Append(@, [sig |-> "SIGKILL", to |-> "leader"])]

\* syscall.Kill(-cmd.Process.Pid, syscall.SIGKILL): every member of the group
KillGroup(p) ==
  [p EXCEPT !.state = IF @ = "running" THEN "killed" ELSE @,
            !.kidsIn = 0,
            !.signals = Append(@, [sig |-> "SIGKILL", to |-> "group"])]

\* what cmd.Wait returns for an ended process (ExitCode() of a process ended
\* by a signal is -1)
WaitError(p) ==
  IF p.state = "killed" THEN ExitError(-1)
  ELSE IF p.exit = 0 THEN NoError ELSE ExitError(p.exit)

(***************************************************************************)
(* State                                                                   *)
(***************************************************************************)
NoCall == [op |-> "none", code |-> "", language |-> "", filePath |-> ""]

\* make(chan error, 1): the capacity of doneCh
DoneChCapacity == 1

\* the locals of one request; doneCh is the channel of the goroutine that
\* waits for the child and waiter that goroutine's position ("none",
\* "waiting": in cmd.Wait or at the send, "sent": ended); launched lists the processes it has started
\* ("compiler", "run"), compilerExit and compilerStderr are what the compiler
\* process ended with, and selected is the branch its select took
NoLocals ==
  [ext |-> "", filePath |-> "", tempFile |-> "", executablePath |-> "",
   compiled |-> FALSE, compileResult |-> NoCompileResult,
   compilerExit |-> 0, compilerStderr |-> "", timeout |-> 0,
   ctxDone |-> FALSE, selected |-> "none", executeErr |-> NoError,
   launched |-> <<>>, result |-> NoResult, err |-> "nil",
   doneCh |-> <<>>, waiter |-> "none"]

(***************************************************************************)
(* The other components' state at construction                             *)
(***************************************************************************)
\* logging.NewMetrics, of which every logging.NewLogger() makes its own: the
\* metrics of the front end's logger (those of the Environment's logger are
\* the variable executions)
NewMetrics == [Executions |-> 0]

\* logging.NewLogger / NewLoggerWithConfig
NewLogger == [metrics |-> NewMetrics]

\* feedback.NewCollector
NewCollector == [items |-> <<>>]

\* a message of a Context, an entry of the history
Entry(role, content) == [Role |-> role, Content |-> content]

\* the system message NewSmolLM puts in the context
SystemMessage == Entry("system", "instructions")

\* model.NewSmolLM: an empty history, a context holding the system message,
\* the mutex free (mutex: the caller holding it, or "none")
NewSmolLM == [history |-> <<>>, context |-> <<SystemMessage>>, mutex |-> "none"]

\* the saved sessions, by name: none
NoSessions == <<>>

\* the files that exist before any request
InitialFiles ==
  ("/home/u/hello.py" :> File("hello", "env", TRUE))
  @@ ("/home/u/HELLO.PY" :> File("hello", "env", TRUE))
  @@ ("/home/u/fail.py" :> File("fail", "env", TRUE))
  @@ ("/home/u/syntax.py" :> File("syntax", "env", TRUE))
  @@ ("/home/u/loop.sh" :> File("loop", "env", TRUE))
  @@ ("/home/u/daemon.sh" :> File("daemon", "env", TRUE))
  @@ ("/home/u/spam.js" :> File("spam", "env", TRUE))
  @@ ("/home/u/main.c" :> File("hello", "env", TRUE))
  @@ ("/home/v/main.c" :> File("fail", "env", TRUE))
  @@ ("/home/u/bad.cpp" :> File("syntax", "env", TRUE))
  @@ ("/home/u/ice.c" :> File("ice", "env", TRUE))
  @@ ("/home/u/hang.cpp" :> File("hangcc", "env", TRUE))
  @@ ("/home/u/noout.c" :> File("noout", "env", TRUE))
  @@ ("/home/u/loop.go" :> File("loop", "env", TRUE))
  @@ ("/home/u/main.GO" :> File("hello", "env", TRUE))
  @@ ("/home/u/prog.C" :> File("hello", "env", TRUE))
  @@ ("/home/u/notes.xyz" :> File("hello", "env", TRUE))
  @@ ("/home/u/locked.xyz" :> File("hello", "env", FALSE))
  @@ ("/home/u/locked.py" :> File("hello", "env", FALSE))
  @@ ("/home/u/sudo.py" :> File("sudo!", "env", TRUE))
  @@ ("/home/u/big.py" :> File(Repeat("x", maxSize + 1), "env", TRUE))
  @@ (Join(WORK_DIR, "kept.py") :> File("hello", "env", TRUE))
  @@ (Join(WORK_DIR, "tmp_7.py") :> File("hello", "env", TRUE))
  @@ (Join(WORK_DIR, "tmp_8.js") :> File("fail", "env", TRUE))
  @@ (Join(WORK_DIR, "tmp_d") :> Directory)

\* the arguments the model calls ExecuteFile with (one path does not exist)
FilePaths == DOMAIN InitialFiles \cup {"/home/u/none.py"}

\* the arguments the model calls ExecuteCode with
Codes == {"hello", "fail", "loop", "spam", "daemon", "syntax", "ice", "hangcc"}

Languages ==
  {"python", "javascript", "js", "go", "golang", "c", "cpp", "c++", "bash", "sh",
   "Python", "ruby"}

\* the arguments of the requests that run side by side
SharedFilePaths ==
  {"/home/u/fail.py", "/home/u/loop.sh", "/home/u/daemon.sh", "/home/u/spam.js",
   "/home/u/main.c", "/home/v/main.c"}

SharedCodes == {"hello"}

SharedLanguages == {"python", "ruby"}

InitOn(files) ==
  /\ fs = files
  /\ clock = 0
  /\ pc = [r \in Reqs |-> "idle"]
  /\ call = [r \in Reqs |-> NoCall]
  /\ loc = [r \in Reqs |-> NoLocals]
  /\ proc = [r \in Reqs |-> NoProc]
  /\ executions = 0
  /\ env = [r \in Reqs |-> NoReport]
  /\ environment = [timeouts |-> EnvironmentTimeouts, limit |-> 0]
  /\ last = NoLast
  /\ logger = NewLogger
  /\ collector = NewCollector
  /\ smollm = NewSmolLM
  /\ sessions = NoSessions

Init == InitOn(InitialFiles)

\* time.Now() advances
Tick ==
  /\ clock < MaxClock
  /\ clock' = clock + 1
  /\ UNCHANGED <<fs, pc, call, loc, proc, executions, env, environment, last, logger, collector, smollm, sessions>>

\* where a request goes when ExecuteFile returns: back into ExecuteCode, or
\* to its caller
AfterExecuteFile(r) == IF call[r].op = "ExecuteCode" THEN "returned" ELSE "done"

\* ExecuteCode up to its call of ExecuteFile: the language switch, the file
\* name from the clock, os.WriteFile (written = FALSE: the write fails)
ExecuteCode(r, code, language, written) ==
  /\ pc[r] = "idle"
  /\ call' = [call EXCEPT ![r] = [op |-> "ExecuteCode", code |-> code,
                                  language |-> language, filePath |-> ""]]
  /\ LET ext == LanguageExt(language)
         filePath == TempPath(clock, ext)
     IN IF ext = ""
          THEN /\ loc' = [loc EXCEPT ![r].err = "unsupported_language"]
               /\ pc' = [pc EXCEPT ![r] = "done"]
               /\ fs' = fs
        ELSE IF ~written
          THEN /\ loc' = [loc EXCEPT ![r].err = "write"]
               /\ pc' = [pc EXCEPT ![r] = "done"]
               /\ fs' = fs
        ELSE /\ fs' = PutFile(fs, filePath, code, r)
             /\ loc' = [loc EXCEPT ![r].filePath = filePath]
             /\ pc' = [pc EXCEPT ![r] = "staging"]
  /\ UNCHANGED <<clock, proc, executions, env, environment, last, logger, collector, smollm, sessions>>

\* a caller invokes ExecuteFile(filePath) directly
ExecuteFile(r, filePath) ==
  /\ pc[r] = "idle"
  /\ call' = [call EXCEPT ![r] = [op |-> "ExecuteFile", code |-> "",
                                  language |-> "", filePath |-> filePath]]
  /\ loc' = [loc EXCEPT ![r].filePath = filePath]
  /\ pc' = [pc EXCEPT ![r] = "staging"]
  /\ UNCHANGED <<fs, clock, proc, executions, env, environment, last, logger, collector, smollm, sessions>>

\* a failed compilation handed to the caller as an error
CompileReturnLocalsAsError(l, c) ==
  IF c.err # "nil" \/ ~c.res.Success
    THEN [l EXCEPT !.compiled = c.err = "nil", !.compileResult = c.res, !.err = "compile"]
  ELSE [l EXCEPT !.compiled = TRUE, !.compileResult = c.res,
                 !.executablePath = c.res.OutputFile]

\* ExecuteFile after e.compiler.Compile returned c: the locals, and where
\* the request goes
CompileReturnLocals(l, c) ==
  IF c.err # "nil" THEN [l EXCEPT !.err = "compile"]
  ELSE IF ~c.res.Success
    THEN [l EXCEPT !.compiled = TRUE, !.compileResult = c.res,
                   !.result = CompileFailureResult(c.res, l.ext)]
  ELSE [l EXCEPT !.compiled = TRUE, !.compileResult = c.res,
                 !.executablePath = c.res.OutputFile]

CompileReturnPc(r, c) ==
  IF c.err = "nil" /\ c.res.Success THEN "ready" ELSE AfterExecuteFile(r)

\* ExecuteFile: os.Stat, the extension, the staging copy and, for .c, .cpp
\* and .go, the start of the compiler (started = FALSE: cmd.Run cannot start
\* it, and Compile returns at once)
Stage(r, started) ==
  /\ pc[r] = "staging"
  /\ LET filePath == loc[r].filePath
         ext == ToLower(Ext(filePath))
         tempFile == Join(WORK_DIR, Base(filePath))
         copy == copyFile(fs, filePath, tempFile, r)
         staged == [loc[r] EXCEPT !.ext = ext, !.tempFile = tempFile,
                                  !.executablePath = tempFile]
     IN IF ~Exists(fs, filePath)
          THEN /\ loc' = [loc EXCEPT ![r].err = "not_exist"]
               /\ pc' = [pc EXCEPT ![r] = AfterExecuteFile(r)]
               /\ fs' = fs
        ELSE IF copy.err
          THEN /\ loc' = [loc EXCEPT ![r] = [staged EXCEPT !.executablePath = "",
                                                           !.err = "copy"]]
               /\ pc' = [pc EXCEPT ![r] = AfterExecuteFile(r)]
               /\ fs' = copy.fs
        ELSE IF ~IsCompiled(ext)
          THEN /\ loc' = [loc EXCEPT ![r] = staged]
               /\ pc' = [pc EXCEPT ![r] = "ready"]
               /\ fs' = copy.fs
        ELSE IF started
          THEN /\ loc' = [loc EXCEPT ![r] = [staged EXCEPT !.launched = Append(@, "compiler")]]
               /\ pc' = [pc EXCEPT ![r] = "compiling"]
               /\ fs' = copy.fs
        ELSE LET c == Compile(copy.fs, tempFile, FALSE, r)
             IN /\ loc' = [loc EXCEPT ![r] = CompileReturnLocals(staged, c)]
                /\ pc' = [pc EXCEPT ![r] = CompileReturnPc(r, c)]
                /\ fs' = c.fs
  /\ UNCHANGED <<clock, call, proc, executions, env, environment, last, logger, collector, smollm, sessions>>

\* the compiler process ends, cmd.Run returns and Compile returns; nothing
\* bounds the wait, so a compiler that never exits leaves the request here
CompileDone(r) ==
  /\ pc[r] = "compiling"
  /\ CompilerRun(fs, loc[r].tempFile).exits
  /\ LET c == Compile(fs, loc[r].tempFile, TRUE, r)
         run == CompilerRun(fs, loc[r].tempFile)
     IN /\ loc' = [loc EXCEPT ![r] =
                     [CompileReturnLocals(loc[r], c) EXCEPT !.compilerExit = run.code,
                                                           !.compilerStderr = run.stderr]]
        /\ pc' = [pc EXCEPT ![r] = CompileReturnPc(r, c)]
        /\ fs' = c.fs
  /\ UNCHANGED <<clock, call, proc, executions, env, environment, last, logger, collector, smollm, sessions>>

\* the instructions of the process that cmd.Start launches for ext
Program(f, ext, executablePath) ==
  IF IsCompiled(ext) THEN Instr(ElfProg(f[executablePath].data))
  ELSE IF ~Exists(f, executablePath) THEN <<Err("no such file"), Exit(2)>>
  ELSE Instr(f[executablePath].data)

\* whether the kernel can execute what cmd.Start is given
Startable(f, ext, executablePath) ==
  IsCompiled(ext) => Exists(f, executablePath) /\ IsElf(f[executablePath].data)

\* ExecuteFile: the timeout, the context, the switch on ext that builds the
\* command, Setpgid, cmd.Start and the goroutine that waits (started = FALSE:
\* cmd.Start fails)
Launch(r, started) ==
  /\ pc[r] = "ready"
  /\ LET ext == loc[r].ext
         timeout == IF ext \in DOMAIN timeouts THEN timeouts[ext] ELSE TIMEOUT_SECONDS
     IN IF ~(IsInterpreted(ext) \/ IsCompiled(ext))
          THEN /\ loc' = [loc EXCEPT ![r].timeout = timeout, ![r].err = "unsupported_type"]
               /\ pc' = [pc EXCEPT ![r] = AfterExecuteFile(r)]
               /\ proc' = proc
        ELSE IF ~started \/ ~Startable(fs, ext, loc[r].executablePath)
          THEN /\ loc' = [loc EXCEPT ![r].timeout = timeout, ![r].err = "start"]
               /\ pc' = [pc EXCEPT ![r] = AfterExecuteFile(r)]
               /\ proc' = proc
        ELSE /\ loc' = [loc EXCEPT ![r].timeout = timeout,
                                   ![r].launched = Append(@, "run"),
                                   ![r].waiter = "waiting"]
             /\ proc' = [proc EXCEPT ![r] =
                           [NoProc EXCEPT !.state = "running",
                                          !.code = Program(fs, ext, loc[r].executablePath)]]
             /\ pc' = [pc EXCEPT ![r] = "waiting"]
  /\ UNCHANGED <<fs, clock, call, executions, env, environment, last, logger, collector, smollm, sessions>>

\* the launched program executes its next instruction
ProcStep(r) ==
  /\ proc[r].state = "running"
  /\ LET p == proc[r]
         i == p.code[p.ip]
     IN /\ i.op # "hang"
        /\ proc' = [proc EXCEPT ![r] =
             CASE i.op = "out" -> [p EXCEPT !.stdout = @ \o i.arg, !.ip = @ + 1]
               [] i.op = "err" -> [p EXCEPT !.stderr = @ \o i.arg, !.ip = @ + 1]
               [] i.op = "fork" -> [p EXCEPT !.kidsIn = @ + 1, !.ip = @ + 1]
               [] i.op = "exit" -> [p EXCEPT !.state = "exited", !.exit = i.code,
                                             !.intime = ~loc[r].ctxDone]]
  /\ UNCHANGED <<fs, clock, pc, call, loc, executions, env, environment, last, logger, collector, smollm, sessions>>

\* a child of the launched program leaves its process group (setsid)
KidSetsid(r) ==
  /\ proc[r].kidsIn > 0
  /\ proc' = [proc EXCEPT ![r].kidsIn = @ - 1, ![r].kidsOut = @ + 1]
  /\ UNCHANGED <<fs, clock, pc, call, loc, executions, env, environment, last, logger, collector, smollm, sessions>>

\* the deadline of context.WithTimeout passes: ctx.Done() becomes ready
DeadlineElapses(r) ==
  /\ pc[r] = "waiting"
  /\ ~loc[r].ctxDone
  /\ loc' = [loc EXCEPT ![r].ctxDone = TRUE]
  /\ UNCHANGED <<fs, clock, pc, call, proc, executions, env, environment, last, logger, collector, smollm, sessions>>

\* cmd.Wait has returned: the leader has ended and the pipes of stdout and
\* stderr are closed, which takes every process holding them to have ended
WaitReturned(p) == p.state \in {"exited", "killed"} /\ p.kidsIn + p.kidsOut = 0

\* a waiting goroutine whose channel has no buffer: its send completes only
\* while the request is receiving in the select
WaiterSendUnbuffered(r) ==
  /\ loc[r].waiter = "waiting"
  /\ WaitReturned(proc[r])
  /\ pc[r] = "waiting" /\ loc[r].doneCh = <<>>
  /\ loc' = [loc EXCEPT ![r].doneCh = Append(@, WaitError(proc[r])),
                        ![r].waiter = "sent"]
  /\ UNCHANGED <<fs, clock, pc, call, proc, executions, env, environment, last, logger, collector, smollm, sessions>>

\* go func() { doneCh <- cmd.Wait() }(): once cmd.Wait has returned the
\* goroutine sends what it returned, which takes room in the channel, and ends
WaiterSend(r) ==
  /\ loc[r].waiter = "waiting"
  /\ WaitReturned(proc[r])
  /\ Len(loc[r].doneCh) < DoneChCapacity
  /\ loc' = [loc EXCEPT ![r].doneCh = Append(@, WaitError(proc[r])),
                        ![r].waiter = "sent"]
  /\ UNCHANGED <<fs, clock, pc, call, proc, executions, env, environment, last, logger, collector, smollm, sessions>>

\* a return from the select that also hands the caller the error it set
FinishAlsoError(r, branch, selected, p) ==
  /\ proc' = [proc EXCEPT ![r] = p]
  /\ loc' = [loc EXCEPT ![r].selected = branch,
                        ![r].doneCh = IF branch = "done" THEN Tail(@) ELSE @,
                        ![r].executeErr = CapCheck(selected, p.stdout),
                        ![r].err = IF CapCheck(selected, p.stdout).kind = "nil"
                                     THEN "nil" ELSE "execute",
                        ![r].result = RunResult(selected, p.stdout, p.stderr, loc[r].ext,
                                                loc[r].compiled, loc[r].compileResult)]
  /\ pc' = [pc EXCEPT ![r] = AfterExecuteFile(r)]
  /\ UNCHANGED <<fs, clock, call, executions, env, environment, last, logger, collector, smollm, sessions>>

\* ExecuteFile from the select to its return, given the branch taken, the
\* error it set and the process afterwards
Finish(r, branch, selected, p) ==
  /\ proc' = [proc EXCEPT ![r] = p]
  /\ loc' = [loc EXCEPT ![r].selected = branch,
                        ![r].doneCh = IF branch = "done" THEN Tail(@) ELSE @,
                        ![r].executeErr = CapCheck(selected, p.stdout),
                        ![r].result = RunResult(selected, p.stdout, p.stderr, loc[r].ext,
                                                loc[r].compiled, loc[r].compileResult)]
  /\ pc' = [pc EXCEPT ![r] = AfterExecuteFile(r)]
  /\ UNCHANGED <<fs, clock, call, executions, env, environment, last, logger, collector, smollm, sessions>>

\* case err := <-doneCh
SelectDone(r) ==
  /\ pc[r] = "waiting"
  /\ loc[r].doneCh # <<>>
  /\ Finish(r, "done", Head(loc[r].doneCh), proc[r])

\* what a read of a buffer gives while its copying goroutine may still be
\* appending to it: some part of what was written to the pipe
Prefixes(s) == {SubSeq(s, 1, n) : n \in 0..Len(s)}

\* case <-ctx.Done(): the kill, and then the reads of stdout and stderr with
\* no wait for cmd.Wait, so unless it had returned already the copying
\* goroutines are still running
SelectTimeout(r) ==
  /\ pc[r] = "waiting"
  /\ loc[r].ctxDone
  /\ IF WaitReturned(proc[r])
       THEN Finish(r, "timeout", TimeoutError(loc[r].timeout), KillGroup(proc[r]))
       ELSE \E out \in Prefixes(proc[r].stdout), err \in Prefixes(proc[r].stderr) :
              Finish(r, "timeout", TimeoutError(loc[r].timeout),
                     [KillGroup(proc[r]) EXCEPT !.copying = TRUE,
                                                !.stdout = out, !.stderr = err])

\* a return that removes the temporary file only when ExecuteFile gave no error
ReturnKeepingOnError(r) ==
  /\ pc[r] = "returned"
  /\ fs' = IF loc[r].err = "nil" THEN RemoveFile(fs, loc[r].filePath) ELSE fs
  /\ pc' = [pc EXCEPT ![r] = "done"]
  /\ UNCHANGED <<clock, call, loc, proc, executions, env, environment, last, logger, collector, smollm, sessions>>

\* ExecuteCode after ExecuteFile returned: os.Remove(filePath) and return
Return(r) ==
  /\ pc[r] = "returned"
  /\ fs' = RemoveFile(fs, loc[r].filePath)
  /\ pc' = [pc EXCEPT ![r] = "done"]
  /\ UNCHANGED <<clock, call, loc, proc, executions, env, environment, last, logger, collector, smollm, sessions>>

\* a return of Environment.Execute / Environment.ExecuteCode that counts the
\* execution whether or not the executor gave an error
EnvironmentReturnCounting(r) ==
  /\ pc[r] = "done"
  /\ ~env[r].returned
  /\ executions' = executions + 1
  /\ env' = [env EXCEPT ![r] =
               IF loc[r].err # "nil"
                 THEN [returned |-> TRUE, output |-> "", err |-> loc[r].err]
                 ELSE [returned |-> TRUE, err |-> "nil",
                       output |-> IF call[r].op = "ExecuteCode"
                                    THEN ExecuteCodeReport(loc[r].result)
                                    ELSE ExecuteReport(loc[r].result)]]
  /\ UNCHANGED <<fs, clock, pc, call, loc, proc, environment, last, logger, collector, smollm, sessions>>

\* a return whose increment is not under the mutex: it adds one to a value of
\* the counter read earlier, which other increments may have passed since
EnvironmentReturnUnlocked(r) ==
  /\ pc[r] = "done"
  /\ ~env[r].returned
  /\ IF loc[r].err # "nil"
       THEN /\ env' = [env EXCEPT ![r] = [returned |-> TRUE, output |-> "",
                                          err |-> loc[r].err]]
            /\ executions' = executions
       ELSE /\ \E seen \in 0..executions : executions' = seen + 1
            /\ env' = [env EXCEPT ![r] =
                         [returned |-> TRUE, err |-> "nil",
                          output |-> IF call[r].op = "ExecuteCode"
                                       THEN ExecuteCodeReport(loc[r].result)
                                       ELSE ExecuteReport(loc[r].result)]]
  /\ UNCHANGED <<fs, clock, pc, call, loc, proc, environment, last, logger, collector, smollm, sessions>>

\* Environment.Execute / Environment.ExecuteCode after the executor returned:
\* the error is passed on as it is; otherwise the execution is counted and
\* the report rendered
EnvironmentReturn(r) ==
  /\ pc[r] = "done"
  /\ ~env[r].returned
  /\ IF loc[r].err # "nil"
       THEN /\ env' = [env EXCEPT ![r] = [returned |-> TRUE, output |-> "",
                                          err |-> loc[r].err]]
            /\ executions' = executions
       ELSE /\ executions' = executions + 1
            /\ env' = [env EXCEPT ![r] =
                         [returned |-> TRUE, err |-> "nil",
                          output |-> IF call[r].op = "ExecuteCode"
                                       THEN ExecuteCodeReport(loc[r].result)
                                       ELSE ExecuteReport(loc[r].result)]]
  /\ UNCHANGED <<fs, clock, pc, call, loc, proc, environment, last, logger, collector, smollm, sessions>>

\* the steps of request r and of the processes it launched, its arguments
\* drawn from the given sets
Request(r, codes, languages, paths) ==
  \/ \E code \in codes, language \in languages, written \in BOOLEAN :
        ExecuteCode(r, code, language, written)
  \/ \E filePath \in paths : ExecuteFile(r, filePath)
  \/ \E started \in BOOLEAN : Stage(r, started)
  \/ CompileDone(r)
  \/ \E started \in BOOLEAN : Launch(r, started)
  \/ ProcStep(r)
  \/ KidSetsid(r)
  \/ DeadlineElapses(r)
  \/ WaiterSend(r)
  \/ SelectDone(r)
  \/ SelectTimeout(r)
  \/ Return(r)
  \/ EnvironmentReturn(r)

\* one request, any arguments
Next == Tick \/ Request("r1", Codes, Languages, FilePaths)

Spec == Init /\ [][Next]_vars

\* what the Go runtime guarantees of a request blocked in the select: the
\* timer of its context fires, and a select with a ready case proceeds.  The
\* launched program and the compiler are under no such obligation.
FairSpec ==
  /\ Spec
  /\ WF_vars(DeadlineElapses("r1"))
  /\ WF_vars(SelectDone("r1") \/ SelectTimeout("r1"))

\* a caller invokes Compiler.Compile(sourcePath) itself, and it returns
\* (started = FALSE: cmd.Run cannot start the command)
CompileCall(sourcePath, started) ==
  /\ started => CompilerRun(fs, sourcePath).exits
  /\ LET c == Compile(fs, sourcePath, started, "env")
     IN /\ fs' = c.fs
        /\ last' = [op |-> "Compile", sourcePath |-> sourcePath, err |-> c.err,
                    res |-> c.res]
  /\ UNCHANGED <<clock, pc, call, loc, proc, executions, env, environment, logger, collector, smollm, sessions>>

\* CheckFileSecurity: the extensions it accepts and the patterns it looks for
supportedExts == {".py", ".js", ".go", ".c", ".cpp", ".sh", ".txt", ".md", ".json", ".csv"}

suspiciousPatterns ==
  {"system(", "exec(", "fork(", "subprocess", "socket", "urllib", "requests", "http",
   "child_process", "spawn", "shellexec", "wget", "curl", "rm -rf", "sudo"}

\* a CheckFileSecurity that rejects a file in which a pattern is found
CheckFileSecurityBlocking(f, filename) ==
  IF ~Exists(f, filename) THEN [err |-> "not_exist", warned |-> {}]
  ELSE IF Len(f[filename].data) > maxSize THEN [err |-> "too_large", warned |-> {}]
  ELSE IF ToLower(Ext(filename)) \notin supportedExts
    THEN [err |-> "unsupported_type", warned |-> {}]
  ELSE IF ~f[filename].readable \/ f[filename].dir THEN [err |-> "read", warned |-> {}]
  ELSE LET found == {x \in suspiciousPatterns : Contains(ToLower(f[filename].data), x)}
       IN [err |-> IF found = {} THEN "nil" ELSE "suspicious", warned |-> found]

\* Environment.CheckFileSecurity: the error it returns, and the patterns it
\* logged a warning for
CheckFileSecurity(f, filename) ==
  IF ~Exists(f, filename) THEN [err |-> "not_exist", warned |-> {}]
  ELSE IF Len(f[filename].data) > maxSize THEN [err |-> "too_large", warned |-> {}]
  ELSE IF ToLower(Ext(filename)) \notin supportedExts
    THEN [err |-> "unsupported_type", warned |-> {}]
  ELSE IF ~f[filename].readable \/ f[filename].dir THEN [err |-> "read", warned |-> {}]
  ELSE [err |-> "nil",
        warned |-> {x \in suspiciousPatterns : Contains(ToLower(f[filename].data), x)}]

\* a caller invokes CheckFileSecurity(filename)
CheckFileSecurityCall(filename) ==
  /\ last' = [op |-> "CheckFileSecurity", filename |-> filename,
              err |-> CheckFileSecurity(fs, filename).err,
              warned |-> CheckFileSecurity(fs, filename).warned]
  /\ UNCHANGED <<fs, clock, pc, call, loc, proc, executions, env, environment, logger, collector, smollm, sessions>>

\* os.ReadDir(workDir): the entries of the working directory
Entries(f) == {p \in DOMAIN f : p = Join(WORK_DIR, Base(p))}

\* the entries CleanupTempFiles tries to remove
TempFiles(f) == {p \in Entries(f) : ~f[p].dir /\ HasPrefix(Base(p), "tmp_")}

RemoveFiles(f, ps) == [q \in DOMAIN f \ ps |-> f[q]]

\* a cleanup that gives up, removing nothing, when a removal fails
CleanupTempFilesAborting(listed, failing) ==
  /\ failing \subseteq TempFiles(fs)
  /\ IF ~listed
       THEN /\ fs' = fs
            /\ last' = [op |-> "CleanupTempFiles", err |-> "read_dir", failed |-> {}]
       ELSE /\ fs' = IF failing = {} THEN RemoveFiles(fs, TempFiles(fs)) ELSE fs
            /\ last' = [op |-> "CleanupTempFiles",
                        err |-> IF failing = {} THEN "nil" ELSE "cleanup",
                        failed |-> {Base(p) : p \in failing}]
  /\ UNCHANGED <<clock, pc, call, loc, proc, executions, env, environment, logger, collector, smollm, sessions>>

\* Environment.CleanupTempFiles (listed = FALSE: os.ReadDir fails; failing:
\* the files whose os.Remove fails): the error it returns, the names the
\* error holds
CleanupTempFiles(listed, failing) ==
  /\ failing \subseteq TempFiles(fs)
  /\ IF ~listed
       THEN /\ fs' = fs
            /\ last' = [op |-> "CleanupTempFiles", err |-> "read_dir", failed |-> {}]
       ELSE /\ fs' = RemoveFiles(fs, TempFiles(fs) \ failing)
            /\ last' = [op |-> "CleanupTempFiles",
                        err |-> IF failing = {} THEN "nil" ELSE "cleanup",
                        failed |-> {Base(p) : p \in failing}]
  /\ UNCHANGED <<clock, pc, call, loc, proc, executions, env, environment, logger, collector, smollm, sessions>>

\* Environment.SetResourceLimits: every entry of e.timeouts becomes
\* timeoutSeconds (cpuPercent and memoryMB are only logged); limit keeps the
\* value last given
SetResourceLimits(cpuPercent, memoryMB, timeoutSeconds) ==
  /\ environment' = [timeouts |-> [e \in DOMAIN environment.timeouts |-> timeoutSeconds],
                     limit |-> timeoutSeconds]
  /\ UNCHANGED <<fs, clock, pc, call, loc, proc, executions, env, last, logger, collector, smollm, sessions>>

\* Environment.GetTimeout
GetTimeout(fileExt) ==
  IF fileExt \in DOMAIN environment.timeouts
    THEN environment.timeouts[fileExt] ELSE TIMEOUT_SECONDS

\* getSystemStatus of the Telegram front end (the /status command): the
\* "executions" entry of the metrics of the front end's own logger, which is
\* the number its reply shows as executed code
getSystemStatus ==
  /\ last' = [op |-> "getSystemStatus", executions |-> logger.metrics.Executions]
  /\ UNCHANGED <<fs, clock, pc, call, loc, proc, executions, env, environment,
                 logger, collector, smollm, sessions>>

\* two requests side by side
NextShared ==
  Tick \/ \E r \in Reqs : Request(r, SharedCodes, SharedLanguages, SharedFilePaths)

Concurrent == Init /\ [][NextShared]_vars

\* the arguments of the request that runs beside the other operations
AsideCodes == {"hello"}

AsideLanguages == {"python"}

AsideFilePaths == {"/home/u/daemon.sh", "/home/u/main.c"}

\* the sources Compile is called with
CompilePaths ==
  {"/home/u/hello.py", "/home/u/syntax.py", "/home/u/loop.sh", "/home/u/spam.js",
   "/home/u/main.c", "/home/v/main.c", "/home/u/bad.cpp", "/home/u/loop.go"}

\* the files CheckFileSecurity is called with (one does not exist)
CheckPaths ==
  {"/home/u/hello.py", "/home/u/sudo.py", "/home/u/big.py", "/home/u/locked.py",
   "/home/u/notes.xyz", "/home/u/none.py", "/home/u/fail.py"}

\* the calls of Compile and of CheckFileSecurity, in any order
NextChecks ==
  \/ Tick
  \/ \E sourcePath \in CompilePaths, started \in BOOLEAN : CompileCall(sourcePath, started)
  \/ \E filename \in CheckPaths : CheckFileSecurityCall(filename)

Checks == Init /\ [][NextChecks]_vars

\* the timeouts SetResourceLimits is called with
Limits == {5}

\* the temporary files whose removal may fail
Unremovable == {Join(WORK_DIR, "tmp_7.py"), Join(WORK_DIR, "tmp_8.js")}

\* one request, and beside it the operations of the Environment that are no
\* requests
NextOperations ==
  \/ Tick
  \/ Request("r1", AsideCodes, AsideLanguages, AsideFilePaths)
  \/ \E listed \in BOOLEAN, failing \in SUBSET Unremovable :
        CleanupTempFiles(listed, failing)
  \/ \E cpuPercent \in {50}, memoryMB \in {256}, timeoutSeconds \in Limits :
        SetResourceLimits(cpuPercent, memoryMB, timeoutSeconds)
  \/ getSystemStatus

Operations == Init /\ [][NextOperations]_vars

(***************************************************************************)
(* storage.FileSystem: WriteFile, ReadFile, DeleteFile, CopyFile and the   *)
(* check of their paths                                                    *)
(***************************************************************************)
\* the elements of a path, between its slashes
RECURSIVE SplitFrom(_, _, _)
SplitFrom(s, i, cur) ==
  IF i > Len(s) THEN <<cur>>
  ELSE IF Char(s, i) = "/" THEN <<cur>> \o SplitFrom(s, i + 1, "")
  ELSE SplitFrom(s, i + 1, cur \o Char(s, i))

\* filepath.Clean on the elements of a rooted path: empty and "." elements
\* are dropped, ".." drops the element before it (and itself at the root)
RECURSIVE CleanElements(_, _)
CleanElements(elems, kept) ==
  IF elems = <<>> THEN kept
  ELSE LET e == Head(elems)
       IN IF e = "" \/ e = "." THEN CleanElements(Tail(elems), kept)
          ELSE IF e = ".."
            THEN CleanElements(Tail(elems),
                               IF kept = <<>> THEN kept ELSE SubSeq(kept, 1, Len(kept) - 1))
          ELSE CleanElements(Tail(elems), Append(kept, e))

RECURSIVE JoinElements(_)
JoinElements(elems) ==
  IF elems = <<>> THEN "" ELSE "/" \o Head(elems) \o JoinElements(Tail(elems))

\* filepath.Clean of a rooted path
Clean(path) ==
  LET elems == CleanElements(SplitFrom(path, 1, ""), <<>>)
  IN IF elems = <<>> THEN "/" ELSE JoinElements(elems)

\* the working directory of the process
Getwd == "/a"

\* filepath.Abs: a rooted path cleaned, any other joined to the working
\* directory and cleaned
Abs(path) == IF HasPrefix(path, "/") THEN Clean(path) ELSE Clean(Join(Getwd, path))

\* filepath.Dir of a clean rooted path
Dir(p) == IF LastSlash(p, Len(p)) <= 1 THEN "/" ELSE SubSeq(p, 1, LastSlash(p, Len(p)) - 1)

\* fs.rootDir
rootDir == "/a/b"

\* FileSystem.isPathSafe: the absolute path begins with the absolute root
isPathSafe(path) == HasPrefix(Abs(path), Abs(rootDir))

\* the files under and beside the root before any operation of the
\* FileSystem: the directories NewFileSystem makes, a file inside, and files
\* in a sibling directory and in another one
StorageFiles ==
  [p \in {"/a", "/a/b", "/a/b/temp", "/a/b/x", "/a/bc", "/a/bc/x", "/a/c", "/a/c/y"} |->
     IF p \in {"/a/b/x", "/a/bc/x", "/a/c/y"} THEN File("data of " \o p, "env", TRUE)
     ELSE Directory]

\* the paths and data callers give
StoragePaths == {"/a/b/x", "/a/b/new", "/a/b", "/a/bc/x", "/a/b/../c/y", "b/temp/../x"}
StorageData == {"d"}

\* a file (or directory) can be created at p: its directory exists, and p is
\* no directory
Creatable(f, p) == Exists(f, Dir(p)) /\ f[Dir(p)].dir /\ ~(Exists(f, p) /\ f[p].dir)

\* what a call of the FileSystem returned: err is "nil", "outside" (the path
\* check refused) or "os" (the operating system did); touched are the paths
\* the operating system was asked to read, write or remove
Returned(op, err, data, touched) ==
  [op |-> op, err |-> err, data |-> data, touched |-> touched]

\* FileSystem.WriteFile: os.WriteFile(path, data, 0644) once the path passed
WriteFile(path, data) ==
  /\ IF ~isPathSafe(path)
       THEN fs' = fs /\ last' = Returned("WriteFile", "outside", "", {})
       ELSE IF ~Creatable(fs, Abs(path))
         THEN fs' = fs /\ last' = Returned("WriteFile", "os", "", {Abs(path)})
         ELSE /\ fs' = PutFile(fs, Abs(path), data, "storage")
              /\ last' = Returned("WriteFile", "nil", "", {Abs(path)})
  /\ UNCHANGED <<clock, pc, call, loc, proc, executions, env, environment,
                 logger, collector, smollm, sessions>>

\* FileSystem.ReadFile: os.ReadFile(path) once the path passed
ReadFile(path) ==
  /\ last' = IF ~isPathSafe(path) THEN Returned("ReadFile", "outside", "", {})
             ELSE IF ~Exists(fs, Abs(path)) \/ fs[Abs(path)].dir
               THEN Returned("ReadFile", "os", "", {Abs(path)})
             ELSE Returned("ReadFile", "nil", fs[Abs(path)].data, {Abs(path)})
  /\ UNCHANGED <<fs, clock, pc, call, loc, proc, executions, env, environment,
                 logger, collector, smollm, sessions>>

\* FileSystem.DeleteFile: os.Remove(path) once the path passed; os.Remove
\* removes a file or an empty directory
DeleteFile(path) ==
  /\ IF ~isPathSafe(path)
       THEN fs' = fs /\ last' = Returned("DeleteFile", "outside", "", {})
       ELSE IF \/ ~Exists(fs, Abs(path))
               \/ \E q \in DOMAIN fs : q # Abs(path) /\ Dir(q) = Abs(path)
         THEN fs' = fs /\ last' = Returned("DeleteFile", "os", "", {Abs(path)})
         ELSE /\ fs' = RemoveFile(fs, Abs(path))
              /\ last' = Returned("DeleteFile", "nil", "", {Abs(path)})
  /\ UNCHANGED <<clock, pc, call, loc, proc, executions, env, environment,
                 logger, collector, smollm, sessions>>

\* FileSystem.CopyFile: both paths pass, os.Stat(src), no directory, then
\* os.Open(src), os.Create(dst), io.Copy and os.Chmod(dst, mode of src)
CopyFile(src, dst) ==
  /\ IF ~isPathSafe(src) \/ ~isPathSafe(dst)
       THEN fs' = fs /\ last' = Returned("CopyFile", "outside", "", {})
       ELSE IF ~Exists(fs, Abs(src))
         THEN fs' = fs /\ last' = Returned("CopyFile", "os", "", {Abs(src)})
       ELSE IF fs[Abs(src)].dir
         THEN fs' = fs /\ last' = Returned("CopyFile", "dir", "", {Abs(src)})
       ELSE IF ~Creatable(fs, Abs(dst))
         THEN fs' = fs /\ last' = Returned("CopyFile", "os", "", {Abs(src), Abs(dst)})
         ELSE /\ fs' = copyFile(fs, Abs(src), Abs(dst), "storage").fs
              /\ last' = Returned("CopyFile", "nil", "", {Abs(src), Abs(dst)})
  /\ UNCHANGED <<clock, pc, call, loc, proc, executions, env, environment,
                 logger, collector, smollm, sessions>>

\* the operations of a FileSystem rooted at rootDir, called by anyone
NextStorage ==
  \/ \E path \in StoragePaths, data \in StorageData : WriteFile(path, data)
  \/ \E path \in StoragePaths : ReadFile(path)
  \/ \E path \in StoragePaths : DeleteFile(path)
  \/ \E src \in StoragePaths, dst \in StoragePaths : CopyFile(src, dst)

Storage == InitOn(StorageFiles) /\ [][NextStorage]_vars

(***************************************************************************)
(* feedback.Collector                                                      *)
(***************************************************************************)
\* c.feedbackDir
feedbackDir == "/var/feedback"

\* the directory NewCollector makes
FeedbackFiles == [p \in {"/var", feedbackDir} |-> Directory]

\* the most items the model lets a Collector hold
MaxItems == 3

FeedbackTypes == {"model_output", "thinking"}
Ratings == {0, 5, 6}
Contents == {"answer"}
Comments == {"good"}

\* fmt.Sprintf("feedback_%d", time.Now().Unix())
FeedbackID(now) == "feedback_" \o ToString(now)

FeedbackIDs == {FeedbackID(now) : now \in 0..(MaxClock + 1)}

\* the FeedbackItem AddFeedback builds
FeedbackItem(id, feedbackType, content, rating, comment, now) ==
  [ID |-> id, Type |-> feedbackType, Content |-> content, Rating |-> rating,
   Comment |-> comment, Timestamp |-> now]

\* json.MarshalIndent of an item (metadata is omitted when empty)
MarshalItem(item) ==
  "{\"id\": \"" \o item.ID \o "\", \"type\": \"" \o item.Type
    \o "\", \"content\": \"" \o item.Content
    \o "\", \"rating\": " \o ToString(item.Rating)
    \o ", \"comment\": \"" \o item.Comment
    \o "\", \"timestamp\": " \o ToString(item.Timestamp) \o "}"

\* saveFeedback: the file of an item, <feedbackDir>/<ID>_<Type>.json
FeedbackPath(item) == Join(feedbackDir, item.ID \o "_" \o item.Type \o ".json")

\* Collector.AddFeedback (written = FALSE: os.WriteFile fails): the rating is
\* checked, the ID made from the second of the clock, the item appended to
\* c.items and then saved; a failed save returns the ID with the error and
\* leaves the item in the list
AddFeedback(feedbackType, content, rating, comment, written) ==
  /\ Len(collector.items) < MaxItems
  /\ IF rating < 1 \/ rating > 5
       THEN /\ last' = [op |-> "AddFeedback", id |-> "", err |-> "rating"]
            /\ collector' = collector
            /\ fs' = fs
       ELSE LET id == FeedbackID(clock)
                item == FeedbackItem(id, feedbackType, content, rating, comment, clock)
            IN /\ collector' = [collector EXCEPT !.items = Append(@, item)]
               /\ IF written
                    THEN /\ fs' = PutFile(fs, FeedbackPath(item), MarshalItem(item), "collector")
                         /\ last' = [op |-> "AddFeedback", id |-> id, err |-> "nil"]
                    ELSE /\ fs' = fs
                         /\ last' = [op |-> "AddFeedback", id |-> id, err |-> "save"]
  /\ UNCHANGED <<clock, pc, call, loc, proc, executions, env, environment,
                 logger, smollm, sessions>>

\* the first item of items with the given ID, as GetFeedback's loop finds it
RECURSIVE FindFeedback(_, _)
FindFeedback(items, id) ==
  IF items = <<>> THEN [found |-> FALSE]
  ELSE IF Head(items).ID = id THEN [found |-> TRUE, item |-> Head(items)]
  ELSE FindFeedback(Tail(items), id)

\* Collector.GetFeedback
GetFeedback(id) ==
  /\ last' = [op |-> "GetFeedback", id |-> id, got |-> FindFeedback(collector.items, id)]
  /\ UNCHANGED <<fs, clock, pc, call, loc, proc, executions, env, environment,
                 logger, collector, smollm, sessions>>

\* a Collector and its callers, while the clock advances
NextFeedback ==
  \/ Tick
  \/ \E feedbackType \in FeedbackTypes, content \in Contents, rating \in Ratings,
        comment \in Comments, written \in BOOLEAN :
        AddFeedback(feedbackType, content, rating, comment, written)
  \/ \E id \in FeedbackIDs : GetFeedback(id)

Feedback == InitOn(FeedbackFiles) /\ [][NextFeedback]_vars

(***************************************************************************)
(* model.SmolLM: Process, Think, SaveSession, LoadSession                  *)
(***************************************************************************)
\* truncateHistory: maxMessages := 10
maxMessages == 10

\* the most messages the model lets the context hold
MaxMessages == 13

\* the goroutines calling the SmolLM
Callers == {"t1", "t2"}

Inputs == {"hi"}
SessionNames == {"s"}

\* truncateHistory: the last maxMessages entries
truncateHistory(history) ==
  IF Len(history) > maxMessages
    THEN SubSeq(history, Len(history) - maxMessages + 1, Len(history))
    ELSE history

\* Context.Save(sessionName): the messages of the context are stored under
\* the name
SaveContext(store, sessionName, context) ==
  [n \in DOMAIN store \cup {sessionName} |->
     IF n = sessionName THEN context ELSE store[n]]

\* LoadContext(sessionName): the messages stored under the name, or an error
LoadContext(store, sessionName) ==
  IF sessionName \in DOMAIN store
    THEN [err |-> FALSE, Messages |-> store[sessionName]]
    ELSE [err |-> TRUE, Messages |-> <<>>]

\* Process up to the call of the model: the mutex is taken, the user entry
\* appended to the history and to the context
ProcessBegin(t, input) ==
  /\ smollm.mutex = "none"
  /\ Len(smollm.context) + 2 <= MaxMessages
  /\ smollm' = [smollm EXCEPT !.mutex = t,
                              !.history = Append(@, Entry("user", input)),
                              !.context = Append(@, Entry("user", input))]
  /\ UNCHANGED <<fs, clock, pc, call, loc, proc, executions, env, environment,
                 last, logger, collector, sessions>>

\* Process from the model's answer on (failed: inferencer.Generate gave an
\* error and the apology stands for the response): the assistant entry is
\* appended, the history truncated, the mutex released
ProcessEnd(t, failed) ==
  /\ smollm.mutex = t
  /\ LET response == IF failed THEN "sorry" ELSE "reply"
     IN /\ smollm' = [smollm EXCEPT
                        !.mutex = "none",
                        !.history = truncateHistory(Append(@, Entry("assistant", response))),
                        !.context = Append(@, Entry("assistant", response))]
        /\ last' = [op |-> "Process", response |-> response]
  /\ UNCHANGED <<fs, clock, pc, call, loc, proc, executions, env, environment,
                 logger, collector, sessions>>

\* Think, which holds the mutex from its start to its end and leaves the
\* history and the context alone (created = FALSE: os.Create of the output
\* file fails)
Think(t, created) ==
  /\ smollm.mutex = "none"
  /\ last' = [op |-> "Think", created |-> created]
  /\ UNCHANGED <<fs, clock, pc, call, loc, proc, executions, env, environment,
                 logger, collector, smollm, sessions>>

\* SaveSession, under the mutex
SaveSession(t, sessionName) ==
  /\ smollm.mutex = "none"
  /\ sessions' = SaveContext(sessions, sessionName, smollm.context)
  /\ last' = [op |-> "SaveSession", err |-> FALSE]
  /\ UNCHANGED <<fs, clock, pc, call, loc, proc, executions, env, environment,
                 logger, collector, smollm>>

\* LoadSession, under the mutex: the loaded context replaces s.context and
\* every message of it becomes an entry of the history
LoadSession(t, sessionName) ==
  /\ smollm.mutex = "none"
  /\ LET newContext == LoadContext(sessions, sessionName)
     IN IF newContext.err
          THEN smollm' = smollm /\ last' = [op |-> "LoadSession", err |-> TRUE]
          ELSE /\ smollm' = [smollm EXCEPT !.context = newContext.Messages,
                                           !.history = newContext.Messages]
               /\ last' = [op |-> "LoadSession", err |-> FALSE]
  /\ UNCHANGED <<fs, clock, pc, call, loc, proc, executions, env, environment,
                 logger, collector, sessions>>

\* the callers of one SmolLM
NextModel ==
  \E t \in Callers :
    \/ \E input \in Inputs : ProcessBegin(t, input)
    \/ \E failed \in BOOLEAN : ProcessEnd(t, failed)
    \/ \E created \in BOOLEAN : Think(t, created)
    \/ \E sessionName \in SessionNames : SaveSession(t, sessionName)
    \/ \E sessionName \in SessionNames : LoadSession(t, sessionName)

Model == Init /\ [][NextModel]_vars

(***************************************************************************)
(* Vocabulary of the properties                                            *)
(***************************************************************************)
\* ExecuteFile was called by r and has returned
FileReturned(r) == pc[r] \in {"returned", "done"} /\ loc[r].filePath # ""

\* ... and returned an ExecuteResult built after the select
RanToResult(r) == FileReturned(r) /\ loc[r].selected # "none"

TimedOut(r) == FileReturned(r) /\ loc[r].selected = "timeout"

SigKillGroup == [sig |-> "SIGKILL", to |-> "group"]

(***************************************************************************)
(* C1: ExecuteCode(c, L) compiles or runs a file that holds exactly c: the *)
(* staged file still holds c after the staging copy, and a program that    *)
(* prints a literal and runs to its end gives Success = true with the      *)
(* literal in Output.                                                      *)
(***************************************************************************)
C1_StagedFileHoldsCode ==
  \A r \in Reqs :
    call[r].op = "ExecuteCode" =>
      /\ pc[r] \in {"compiling", "ready"} =>
            Exists(fs, loc[r].tempFile) /\ fs[loc[r].tempFile].data = call[r].code
      /\ (pc[r] = "done" /\ call[r].code = "hello" /\ loc[r].selected = "done") =>
            loc[r].result.Success /\ Contains(loc[r].result.Output, Literal)

(***************************************************************************)
(* C2: a request that takes the timeout branch has sent exactly one        *)
(* signal, SIGKILL to the process group, and has returned in that same     *)
(* step; and every request waiting in the select leaves it, whatever the   *)
(* program does.                                                           *)
(***************************************************************************)
C2_TimeoutKillsGroupAndReturns ==
  /\ [](\A r \in Reqs :
          /\ loc[r].selected = "timeout" =>
                proc[r].signals = <<SigKillGroup>> /\ pc[r] \in {"returned", "done"}
          /\ pc[r] = "waiting" => proc[r].signals = <<>>)
  /\ \A r \in Reqs : (pc[r] = "waiting") ~> (pc[r] \in {"returned", "done"})

\* a program that never exits was killed at the deadline and the request returned
C2_Witness ==
  \E r \in Reqs :
    /\ pc[r] = "done" /\ loc[r].selected = "timeout"
    /\ proc[r].state = "killed" /\ proc[r].code[proc[r].ip].op = "hang"

(***************************************************************************)
(* C3 (as claimed): when ExecuteFile returns the result of a run that      *)
(* timed out, neither the leader nor any descendant is alive.              *)
(***************************************************************************)
C3_NoProcessSurvivesTimeout ==
  \A r \in Reqs :
    TimedOut(r) => proc[r].state # "running" /\ proc[r].kidsIn = 0 /\ proc[r].kidsOut = 0

(***************************************************************************)
(* C3 (amended): when ExecuteFile returns the result of a run that timed   *)
(* out, no member of the launched process group is alive: not the leader,  *)
(* and no descendant that stayed in the group.                             *)
(***************************************************************************)
C3_NoGroupMemberSurvivesTimeout ==
  \A r \in Reqs : TimedOut(r) => proc[r].state # "running" /\ proc[r].kidsIn = 0

\* a timed-out run whose program had forked a child that stayed in the group
C3_Witness ==
  \E r \in Reqs :
    /\ TimedOut(r)
    /\ proc[r].code[1].op = "fork" /\ proc[r].ip > 1 /\ proc[r].kidsOut = 0

(***************************************************************************)
(* C4: in every ExecuteResult the length of Output is at most              *)
(* maxOutputSize.                                                          *)
(***************************************************************************)
C4_OutputWithinCap ==
  \A r \in Reqs : ~loc[r].result.nil => Len(loc[r].result.Output) <= maxOutputSize

(***************************************************************************)
(* C5: a run whose stdout exceeded the cap was ended by a kill of the      *)
(* process group, before the program completed on its own and before the   *)
(* timeout.                                                                *)
(***************************************************************************)
C5_OverflowKillsEarly ==
  \A r \in Reqs :
    (RanToResult(r) /\ Len(proc[r].stdout) > maxOutputSize) =>
      /\ SigKillGroup \in {proc[r].signals[i] : i \in DOMAIN proc[r].signals}
      /\ proc[r].state = "killed"
      /\ loc[r].selected # "timeout"

(***************************************************************************)
(* C6: a timed-out run, a run whose stdout exceeded the cap and a run that *)
(* exited non-zero never give results that agree on Success, ExitCode and  *)
(* Error: two results whose executeErr differ in kind differ in one of     *)
(* these fields.                                                           *)
(***************************************************************************)
C6_FailureKindsDistinct ==
  \A r1, r2 \in Reqs :
    (/\ RanToResult(r1) /\ RanToResult(r2)
     /\ loc[r1].executeErr.kind # "nil" /\ loc[r2].executeErr.kind # "nil"
     /\ loc[r1].executeErr.kind # loc[r2].executeErr.kind) =>
      <<loc[r1].result.Success, loc[r1].result.ExitCode, loc[r1].result.Error>>
        # <<loc[r2].result.Success, loc[r2].result.ExitCode, loc[r2].result.Error>>

(***************************************************************************)
(* C7: a compile step never blocks its request: while a request is in      *)
(* Compile some step of it is possible (the compiler exits, or it is       *)
(* killed at the compile timeout and Compile returns a failure).           *)
(***************************************************************************)
C7_CompileNeverBlocks ==
  \A r \in Reqs :
    pc[r] = "compiling" => ENABLED Request(r, Codes, Languages, FilePaths)

(***************************************************************************)
(* C8 (as claimed): no run process exists while or before the compiler     *)
(* runs, and after a failed compilation no run process is started and the  *)
(* result has Success = false, Compiled = true, ExecuteTime = 0 and Error   *)
(* equal to the compiler's diagnostic text.                                *)
(***************************************************************************)
CompileFailed(r) == FileReturned(r) /\ loc[r].compiled /\ ~loc[r].compileResult.Success

CompileBeforeRun(r) ==
  /\ pc[r] = "compiling" => proc[r].state = "none" /\ loc[r].launched = <<"compiler">>
  /\ (IsCompiled(loc[r].ext) /\ proc[r].state # "none") =>
        loc[r].compiled /\ loc[r].compileResult.Success
  /\ CompileFailed(r) =>
        /\ proc[r].state = "none" /\ "run" \notin {loc[r].launched[i] : i \in DOMAIN loc[r].launched}
        /\ ~loc[r].result.nil /\ loc[r].err = "nil"
        /\ ~loc[r].result.Success /\ loc[r].result.Compiled
        /\ loc[r].result.ExecuteTime = "zero"

C8_CompileFailureResult ==
  \A r \in Reqs :
    /\ CompileBeforeRun(r)
    /\ (CompileFailed(r) /\ loc[r].launched = <<"compiler">>) =>
          loc[r].result.Error = loc[r].compilerStderr

(***************************************************************************)
(* C8 (amended): no run process exists while or before the compiler runs,  *)
(* and after a failed compilation no run process is started and the result *)
(* has Success = false, Compiled = true, ExecuteTime = 0 and Error equal to *)
(* CompileResult.Error, which contains the compiler's diagnostic text: for  *)
(* a compiler that exited non-zero it is that text alone when the exit     *)
(* code has no known message, and the known message, ": " and that text    *)
(* when it has one; for a compiler that exited 0 without its output file   *)
(* it is the missing-output message.                                       *)
(***************************************************************************)
C8_CompileFailureCarriesDiagnostic ==
  \A r \in Reqs :
    /\ CompileBeforeRun(r)
    /\ CompileFailed(r) => loc[r].result.Error = loc[r].compileResult.Error
    /\ (CompileFailed(r) /\ loc[r].launched = <<"compiler">>) =>
          LET known == CompilerConfigs[loc[r].ext].ErrorCodes
          IN /\ Contains(loc[r].result.Error, loc[r].compilerStderr)
             /\ loc[r].compilerExit \in DOMAIN known =>
                   loc[r].result.Error
                     = known[loc[r].compilerExit] \o ": " \o loc[r].compilerStderr
             /\ (loc[r].compilerExit \notin DOMAIN known /\ loc[r].compilerExit # 0) =>
                   loc[r].result.Error = loc[r].compilerStderr
             /\ loc[r].compilerExit = 0 => loc[r].result.Error = "no-output-file"

\* a compiler that exited 1 with a diagnostic, and the request returned
C8_Witness ==
  \E r \in Reqs :
    /\ CompileFailed(r) /\ pc[r] = "done"
    /\ loc[r].launched = <<"compiler">>
    /\ loc[r].compilerExit = 1 /\ loc[r].compilerStderr = "diag"

(***************************************************************************)
(* C9: ExecuteFile on an existing file with an unrecognized extension      *)
(* returns the unsupported-type error and starts neither a compiler nor a  *)
(* run process; ExecuteCode with an unknown language returns its error     *)
(* without writing a file or starting a process.                           *)
(***************************************************************************)
Recognized(ext) == IsInterpreted(ext) \/ IsCompiled(ext)

C9_UnsupportedLaunchesNothing ==
  \A r \in Reqs :
    /\ (call[r].op = "ExecuteFile" /\ pc[r] = "done"
          /\ call[r].filePath \in DOMAIN InitialFiles
          /\ ~Recognized(ToLower(Ext(call[r].filePath)))) =>
         /\ loc[r].err = "unsupported_type" /\ loc[r].result.nil
         /\ loc[r].launched = <<>> /\ proc[r].state = "none"
    /\ (call[r].op = "ExecuteCode" /\ LanguageExt(call[r].language) = "") =>
         /\ pc[r] = "done" /\ loc[r].err = "unsupported_language" /\ loc[r].result.nil
         /\ loc[r].launched = <<>> /\ proc[r].state = "none"
         /\ \A p \in DOMAIN fs : fs[p].creator # r

\* the part of C9 that the code keeps: no process for an unrecognized
\* extension or language, whatever error is returned
C9_NoProcessForUnsupported ==
  \A r \in Reqs :
    ((call[r].op = "ExecuteFile" /\ ~Recognized(ToLower(Ext(call[r].filePath))))
       \/ (call[r].op = "ExecuteCode" /\ LanguageExt(call[r].language) = "")) =>
      loc[r].launched = <<>> /\ proc[r].state = "none"

(***************************************************************************)
(* C10: after ExecuteCode has returned, whatever the outcome, the          *)
(* temporary source file it wrote does not exist.                          *)
(***************************************************************************)
C10_TempFileRemoved ==
  \A r \in Reqs :
    (call[r].op = "ExecuteCode" /\ pc[r] = "done") =>
      (loc[r].filePath # "" => ~Exists(fs, loc[r].filePath))

\* an ExecuteCode whose ExecuteFile returned an error (the process could not
\* be started) has returned, its file once written
C10_Witness ==
  \E r \in Reqs :
    /\ call[r].op = "ExecuteCode" /\ pc[r] = "done"
    /\ loc[r].filePath = TempPath(clock, loc[r].ext)
    /\ loc[r].err = "start"

(***************************************************************************)
(* C11: ExecuteFile never changes the file it is given: once it has        *)
(* returned, the file at the given path, also a path inside the working    *)
(* directory, still exists and holds what it held before the call.         *)
(***************************************************************************)
C11_CallerFileUntouched ==
  \A r \in Reqs :
    (call[r].op = "ExecuteFile" /\ FileReturned(r)
       /\ call[r].filePath \in DOMAIN InitialFiles) =>
      /\ Exists(fs, call[r].filePath)
      /\ fs[call[r].filePath].data = InitialFiles[call[r].filePath].data

(***************************************************************************)
(* C12: two ExecuteCode calls in flight at the same time never have the    *)
(* same temporary file path, whatever the clock read for each.             *)
(***************************************************************************)
InFlight(r) == pc[r] \in {"staging", "compiling", "ready", "waiting", "returned"}

C12_TempPathsDistinct ==
  \A r1, r2 \in Reqs :
    (r1 # r2 /\ call[r1].op = "ExecuteCode" /\ call[r2].op = "ExecuteCode"
       /\ InFlight(r1) /\ InFlight(r2)) =>
      loc[r1].filePath # loc[r2].filePath

(***************************************************************************)
(* C13: two ExecuteFile requests in flight for different files never have  *)
(* the same staged path or the same artifact path, and the process a       *)
(* request runs is the program of the file it was given.                   *)
(***************************************************************************)
C13_StagedPathsDistinct ==
  /\ \A r1, r2 \in Reqs :
       (r1 # r2 /\ call[r1].op = "ExecuteFile" /\ call[r2].op = "ExecuteFile"
          /\ InFlight(r1) /\ InFlight(r2)
          /\ loc[r1].tempFile # "" /\ loc[r2].tempFile # ""
          /\ call[r1].filePath # call[r2].filePath) =>
         /\ loc[r1].tempFile # loc[r2].tempFile
         /\ OutputFileOf(loc[r1].tempFile) # OutputFileOf(loc[r2].tempFile)
  /\ \A r \in Reqs :
       (call[r].op = "ExecuteFile" /\ proc[r].state # "none") =>
         proc[r].code = Instr(InitialFiles[call[r].filePath].data)

(***************************************************************************)
(* C14: when the launched process exited on its own while the deadline had *)
(* not passed, and its stdout is within the cap, the result has Success =  *)
(* true exactly when the exit code is 0, ExitCode equal to the exit code,  *)
(* Output equal to all it wrote to stdout and Error to all it wrote to     *)
(* stderr.                                                                 *)
(***************************************************************************)
C14_ExitCapturedVerbatim ==
  \A r \in Reqs :
    (RanToResult(r) /\ proc[r].state = "exited" /\ proc[r].intime
       /\ Len(proc[r].stdout) <= maxOutputSize) =>
      /\ loc[r].result.Success = (proc[r].exit = 0)
      /\ loc[r].result.ExitCode = proc[r].exit
      /\ loc[r].result.Output = proc[r].stdout
      /\ loc[r].result.Error = proc[r].stderr

(***************************************************************************)
(* C15: a staged request either fails to launch, returning an error and no *)
(* result, or runs; a running request returns through exactly one branch   *)
(* of the select, also when both are ready, with one result of exactly one *)
(* kind (completed, timed out, output exceeded) and no error; a request    *)
(* that has returned has a result or an error, never both and never        *)
(* neither, and what it returned does not change afterwards.               *)
(***************************************************************************)
Outcomes(r) ==
  {o \in {"Completed", "TimedOut", "OutputExceeded", "LaunchFailed"} :
     \/ o = "LaunchFailed" /\ loc[r].selected = "none"
          /\ loc[r].err \in {"start", "unsupported_type"}
     \/ o = "Completed" /\ loc[r].selected = "done"
          /\ loc[r].executeErr.kind \in {"nil", "ExitError"}
     \/ o = "TimedOut" /\ loc[r].selected = "timeout" /\ loc[r].executeErr.kind = "timeout"
     \/ o = "OutputExceeded" /\ loc[r].selected # "none"
          /\ loc[r].executeErr.kind = "overflow"}

C15_StepsOfRequest(r) ==
  /\ (pc[r] = "ready" /\ pc'[r] # "ready") =>
        \/ pc'[r] = "waiting" /\ loc'[r].result.nil /\ loc'[r].err = "nil"
        \/ pc'[r] \in {"returned", "done"} /\ loc'[r].result.nil
             /\ Outcomes(r)' = {"LaunchFailed"}
  /\ (pc[r] = "waiting" /\ pc'[r] # "waiting") =>
        /\ pc'[r] \in {"returned", "done"}
        /\ ~loc'[r].result.nil /\ loc'[r].err = "nil"
        /\ Cardinality(Outcomes(r)') = 1 /\ "LaunchFailed" \notin Outcomes(r)'
        /\ loc'[r].selected = "done" => proc'[r].signals = <<>>
        /\ loc'[r].selected = "timeout" => proc'[r].signals = <<SigKillGroup>>
  /\ FileReturned(r) =>
        loc'[r].result = loc[r].result /\ loc'[r].err = loc[r].err

C15_OneOutcome ==
  /\ [][\A r \in Reqs : C15_StepsOfRequest(r)]_vars
  /\ [](\A r \in Reqs : FileReturned(r) => (loc[r].result.nil <=> loc[r].err # "nil"))

\* the process had exited and the deadline had passed when the select ran:
\* both branches were ready, and the request returned through one
C15_Witness ==
  \E r \in Reqs :
    /\ RanToResult(r) /\ loc[r].ctxDone /\ WaitReturned(proc[r])
    /\ loc[r].selected = "done"

(***************************************************************************)
(* C16: the reports of Environment.Execute and Environment.ExecuteCode     *)
(* tell the failure kinds apart: two reports of failures of different      *)
(* kinds (compile failure, ran but failed, timeout, output overflow) have  *)
(* different first lines; a program that compiled and then exited non-zero *)
(* is not reported as a compile error; a compile failure is not reported   *)
(* as an execution error with code 0.                                      *)
(***************************************************************************)
RECURSIVE FirstLineFrom(_, _)
FirstLineFrom(s, i) ==
  IF i > Len(s) \/ Char(s, i) = "\n" THEN SubSeq(s, 1, i - 1) ELSE FirstLineFrom(s, i + 1)

FirstLine(s) == FirstLineFrom(s, 1)

Reported(r) == env[r].returned /\ env[r].err = "nil"

FailureKind(r) ==
  IF CompileFailed(r) THEN "compile"
  ELSE IF RanToResult(r) /\ loc[r].executeErr.kind = "ExitError" THEN "ran but failed"
  ELSE IF RanToResult(r) THEN loc[r].executeErr.kind
  ELSE "nil"

C16_ReportTellsKindsApart ==
  /\ \A r1, r2 \in Reqs :
       (Reported(r1) /\ Reported(r2)
          /\ FailureKind(r1) # "nil" /\ FailureKind(r2) # "nil"
          /\ FailureKind(r1) # FailureKind(r2)) =>
         FirstLine(env[r1].output) # FirstLine(env[r2].output)
  /\ \A r \in Reqs :
       /\ (Reported(r) /\ loc[r].compiled /\ FailureKind(r) = "ran but failed") =>
             FirstLine(env[r].output) # "Compile error:"
       /\ (Reported(r) /\ FailureKind(r) = "compile") =>
             FirstLine(env[r].output) # "Execution error (code 0):"

(***************************************************************************)
(* C17: ExecuteFile returns the failures of the program as data: after a   *)
(* compile failure, a non-zero exit, a timeout or an output overflow it    *)
(* has returned a result with Success = false and a nil error.  It returns *)
(* an error, and then no result, only for a missing file, a failed staging *)
(* copy, an unsupported extension or a process that could not be started.  *)
(***************************************************************************)
ProgramFailed(r) ==
  \/ loc[r].compiled /\ ~loc[r].compileResult.Success
  \/ loc[r].selected = "done" /\ proc[r].exit # 0
  \/ loc[r].selected = "timeout"
  \/ loc[r].selected # "none" /\ Len(proc[r].stdout) > maxOutputSize

C17_FailuresAreData ==
  \A r \in Reqs :
    FileReturned(r) =>
      /\ ProgramFailed(r) =>
            ~loc[r].result.nil /\ ~loc[r].result.Success /\ loc[r].err = "nil"
      /\ loc[r].err # "nil" =>
            /\ loc[r].result.nil
            /\ loc[r].err \in {"not_exist", "copy", "unsupported_type", "start"}

\* the compiler exited 1 and the failure has been returned as a result
C17_Witness ==
  \E r \in Reqs :
    /\ FileReturned(r) /\ ProgramFailed(r)
    /\ loc[r].compiled /\ ~loc[r].compileResult.Success /\ loc[r].compilerExit = 1

(***************************************************************************)
(* C18: when cmd.Start fails ExecuteFile returns an error and no result,   *)
(* with no execution time recorded, no process, no wait and no select; and *)
(* Environment passes the error on without counting an execution: the      *)
(* counter is the number of requests that Environment answered with a      *)
(* report.                                                                 *)
(***************************************************************************)
C18_LaunchFailureIsError ==
  /\ \A r \in Reqs :
       loc[r].err = "start" =>
         /\ FileReturned(r)
         /\ loc[r].result.nil /\ loc[r].result.ExecuteTime = "zero"
         /\ proc[r].state = "none"
         /\ "run" \notin {loc[r].launched[i] : i \in DOMAIN loc[r].launched}
         /\ loc[r].selected = "none" /\ ~loc[r].ctxDone
         /\ env[r].returned => env[r].err = "start" /\ env[r].output = ""
  /\ executions = Cardinality({r \in Reqs : Reported(r)})

\* cmd.Start failed and Environment has returned
C18_Witness ==
  \E r \in Reqs : loc[r].err = "start" /\ env[r].returned /\ executions = 0

(***************************************************************************)
(* C19: when the compiler exits non-zero Compile returns Success = false,  *)
(* and its Error is the known message for the exit code followed by the    *)
(* raw stderr if the profile has one, and otherwise the raw stderr         *)
(* together with the numeric exit code.                                    *)
(***************************************************************************)
CompilerExited(r) ==
  /\ loc[r].compiled
  /\ "compiler" \in {loc[r].launched[i] : i \in DOMAIN loc[r].launched}

C19_CompileErrorText ==
  \A r \in Reqs :
    (CompilerExited(r) /\ loc[r].compilerExit # 0) =>
      LET known == CompilerConfigs[loc[r].ext].ErrorCodes
          code == loc[r].compilerExit
          res == loc[r].compileResult
      IN /\ ~res.Success
         /\ code \in DOMAIN known =>
               res.Error = known[code] \o ": " \o loc[r].compilerStderr
         /\ code \notin DOMAIN known =>
               /\ Contains(res.Error, loc[r].compilerStderr)
               /\ Contains(res.Error, ToString(code))

(***************************************************************************)
(* C20: for .c, .cpp and .go, Compile returns Success = true only if the   *)
(* output file exists after the compiler exited 0, and the file is then    *)
(* executable; when the compiler exited 0 and the output file is absent,   *)
(* Compile returns Success = false with the missing-artifact error, and    *)
(* ExecuteFile returns the failure without starting a run process.         *)
(***************************************************************************)
C20_SuccessNeedsArtifact ==
  \A r \in Reqs :
    (CompilerExited(r) /\ CompilerConfigs[loc[r].ext].NeedsCompiled) =>
      LET outputFile == OutputFileOf(loc[r].tempFile)
          res == loc[r].compileResult
      IN /\ res.Success =>
               /\ loc[r].compilerExit = 0 /\ res.OutputFile = outputFile
               /\ Exists(fs, outputFile) /\ fs[outputFile].readable
         /\ (loc[r].compilerExit = 0 /\ ~Exists(fs, outputFile)) =>
               /\ ~res.Success /\ res.Error = "no-output-file"
               /\ FileReturned(r) /\ ~loc[r].result.nil /\ ~loc[r].result.Success
               /\ loc[r].result.Error = "no-output-file"
               /\ proc[r].state = "none"
               /\ "run" \notin {loc[r].launched[i] : i \in DOMAIN loc[r].launched}

\* the compiler exited 0 without an output file, and ExecuteFile returned
C20_Witness ==
  \E r \in Reqs :
    /\ CompilerExited(r) /\ loc[r].compilerExit = 0 /\ pc[r] = "done"
    /\ ~Exists(fs, OutputFileOf(loc[r].tempFile))
    /\ loc[r].compileResult.Error = "no-output-file"

(***************************************************************************)
(* C21: the artifact path that Compile computes for a source is the source *)
(* path without its extension, followed by ".out" for C and C++ and by     *)
(* nothing for Go, and is never the source path itself, also when the      *)
(* extension is written in upper or mixed case.                            *)
(***************************************************************************)
StripExt(p) == SubSeq(p, 1, Len(p) - Len(Ext(p)))

C21_ArtifactPath ==
  \A r \in Reqs :
    (loc[r].compiled \/ pc[r] = "compiling") =>
      LET sourcePath == loc[r].tempFile
          ext == ToLower(Ext(sourcePath))
      IN /\ OutputFileOf(sourcePath)
              = StripExt(sourcePath) \o (IF ext \in {".c", ".cpp"} THEN ".out" ELSE "")
         /\ OutputFileOf(sourcePath) # sourcePath

(***************************************************************************)
(* C22: for .py, .js and .sh a successful Compile designates the source    *)
(* itself as the artifact: OutputFile is the source path, a file that      *)
(* exists.                                                                 *)
(***************************************************************************)
C22_InterpretedArtifactIsSource ==
  (/\ last.op = "Compile" /\ last.err = "nil" /\ last.res.Success
   /\ ~CompilerConfigs[ToLower(Ext(last.sourcePath))].NeedsCompiled) =>
    last.res.OutputFile = last.sourcePath /\ Exists(fs, last.res.OutputFile)

(***************************************************************************)
(* C23: no increment of the execution counter is lost: in every            *)
(* interleaving the counter equals the number of calls of                  *)
(* Environment.Execute / ExecuteCode that have returned a report, and a    *)
(* call that returns an error leaves it as it was.                         *)
(***************************************************************************)
C23_NoLostExecution ==
  /\ [](executions = Cardinality({r \in Reqs : env[r].returned /\ env[r].err = "nil"}))
  /\ [][\A r \in Reqs :
          (~env[r].returned /\ env'[r].returned /\ env'[r].err # "nil") =>
            executions' = executions]_vars

\* both requests have returned a report
C23_Witness ==
  /\ \A r \in Reqs : env[r].returned /\ env[r].err = "nil"
  /\ executions = Cardinality(Reqs)

(***************************************************************************)
(* C24: CheckFileSecurity does not depend on what a file holds: two        *)
(* existing files with the same extension, the same size and the same      *)
(* permission to read get the same answer; it returns an error exactly     *)
(* when the file is missing or cannot be read, is larger than the maximum, *)
(* or has an extension outside the allowed set; a suspicious pattern gives *)
(* a warning and no error.                                                 *)
(***************************************************************************)
C24_CheckIsAdvisory ==
  /\ \A p, q \in CheckPaths \cap DOMAIN fs :
       (/\ ToLower(Ext(p)) = ToLower(Ext(q))
        /\ Len(fs[p].data) = Len(fs[q].data)
        /\ fs[p].readable = fs[q].readable) =>
         CheckFileSecurity(fs, p).err = CheckFileSecurity(fs, q).err
  /\ last.op = "CheckFileSecurity" =>
       /\ last.err # "nil" <=>
             \/ ~Exists(fs, last.filename)
             \/ ~fs[last.filename].readable
             \/ Len(fs[last.filename].data) > maxSize
             \/ ToLower(Ext(last.filename)) \notin supportedExts
       /\ last.err # "nil" => last.warned = {}

\* a file holding a suspicious pattern was checked: a warning and no error
C24_Witness ==
  /\ last.op = "CheckFileSecurity" /\ last.err = "nil"
  /\ last.warned = {"sudo"} /\ last.filename = "/home/u/sudo.py"

(***************************************************************************)
(* C25: a pass of CleanupTempFiles that could list the working directory   *)
(* removes every file of it named tmp_... except those whose removal       *)
(* fails, going on after a failure; it returns an error exactly when a     *)
(* removal failed, and the error names the files that failed; every other  *)
(* entry, and every directory, is as it was.                               *)
(***************************************************************************)
CleanupStep ==
  /\ last'.op = "CleanupTempFiles"
  /\ UNCHANGED <<clock, pc, call, loc, proc, executions, env, environment, logger, collector, smollm, sessions>>

C25_CleanupGoesOn ==
  [][(CleanupStep /\ last'.err # "read_dir") =>
       LET tried == {p \in DOMAIN fs :
                       /\ p = Join(WORK_DIR, Base(p))
                       /\ ~fs[p].dir
                       /\ HasPrefix(Base(p), "tmp_")}
           kept == {p \in tried : Base(p) \in last'.failed}
       IN /\ DOMAIN fs' = DOMAIN fs \ (tried \ kept)
          /\ \A p \in DOMAIN fs' : fs'[p] = fs[p]
          /\ last'.failed \subseteq {Base(p) : p \in tried}
          /\ last'.err # "nil" <=> last'.failed # {}]_vars

\* one removal failed: the error names that file alone, the other temporary
\* file is gone, the directory and the file without the prefix are there
C25_Witness ==
  /\ last.op = "CleanupTempFiles" /\ last.err = "cleanup"
  /\ last.failed = {"tmp_7.py"}
  /\ Exists(fs, Join(WORK_DIR, "tmp_7.py")) /\ ~Exists(fs, Join(WORK_DIR, "tmp_8.js"))
  /\ Exists(fs, Join(WORK_DIR, "tmp_d")) /\ Exists(fs, Join(WORK_DIR, "kept.py"))

(***************************************************************************)
(* C26: the source file that ExecuteCode wrote is there, untouched by any  *)
(* other operation, from its writing until the request's own removal: it   *)
(* exists as long as the request is under way, and it holds the code when  *)
(* the request comes to stage it (what the request's own staging copy then *)
(* does to it is C1's subject).                                            *)
(***************************************************************************)
C26_TempFileOwned ==
  \A r \in Reqs :
    (call[r].op = "ExecuteCode" /\ loc[r].filePath # "" /\ InFlight(r)) =>
      /\ Exists(fs, loc[r].filePath)
      /\ pc[r] = "staging" => fs[loc[r].filePath].data = call[r].code

(***************************************************************************)
(* C27: the artifact a request compiled does not outlive it: once          *)
(* ExecuteFile or ExecuteCode on a .c, .cpp or .go source has returned,    *)
(* the artifact file does not exist.                                       *)
(***************************************************************************)
C27_ArtifactRemoved ==
  \A r \in Reqs :
    (pc[r] = "done" /\ loc[r].compiled /\ loc[r].compileResult.Success) =>
      ~Exists(fs, loc[r].compileResult.OutputFile)

(***************************************************************************)
(* C28: no operation changes the tables made at construction: the          *)
(* Environment's timeouts are those NewEnvironment set, and in them, as in *)
(* the Executor's, every compiled language has a larger timeout than every *)
(* interpreted one.                                                        *)
(***************************************************************************)
C28_TablesFixed ==
  /\ environment.timeouts = EnvironmentTimeouts
  /\ \A c \in {".go", ".c", ".cpp"}, i \in {".py", ".js", ".sh"} :
       GetTimeout(c) > GetTimeout(i) /\ timeouts[c] > timeouts[i]

(***************************************************************************)
(* C29: once SetResourceLimits was called with t, GetTimeout gives t for   *)
(* each of .py, .js, .go, .c, .cpp and .sh, and a request that launches    *)
(* its process afterwards runs it with a timeout of t seconds.             *)
(***************************************************************************)
C29_LimitApplies ==
  /\ [](environment.limit # 0 =>
          \A e \in {".py", ".js", ".go", ".c", ".cpp", ".sh"} :
            GetTimeout(e) = environment.limit)
  /\ [][\A r \in Reqs :
          (pc[r] = "ready" /\ pc'[r] = "waiting" /\ environment.limit # 0) =>
            loc'[r].timeout = environment.limit]_vars

(***************************************************************************)
(* C30: when ExecuteFile reads the stdout and stderr buffers, on either    *)
(* branch of the select, the goroutines that copy the child's output into  *)
(* them have finished.                                                     *)
(***************************************************************************)
C30_NoWriterAtRead ==
  \A r \in Reqs : RanToResult(r) => ~proc[r].copying

(***************************************************************************)
(* C31                                                                     *)
(***************************************************************************)
\* ExecuteFile of request r has returned after launching the program
Left(r) == pc[r] \in {"returned", "done"} /\ loc[r].waiter # "none"

\* C31 (as amended): the send on doneCh never blocks -- whenever cmd.Wait has
\* returned and the goroutine has not sent yet, the send can be made, whether
\* or not the request still receives; a request that took the done branch
\* leaves no goroutine behind; and after a request that took the timeout
\* branch the goroutine stays blocked only inside cmd.Wait, and only while a
\* process that left the group holds the pipes.
C31_SendNeverBlocks ==
  \A r \in Reqs :
    /\ (loc[r].waiter = "waiting" /\ WaitReturned(proc[r])) => ENABLED WaiterSend(r)
    /\ (Left(r) /\ loc[r].selected = "done") => loc[r].waiter = "sent"
    /\ (Left(r) /\ loc[r].waiter = "waiting" /\ ~WaitReturned(proc[r])) =>
          loc[r].selected = "timeout" /\ proc[r].kidsOut > 0

\* the timeout branch won, nobody receives any more, and the goroutine has
\* sent into the channel and ended
C31_Witness ==
  \E r \in Reqs :
    /\ Left(r) /\ loc[r].selected = "timeout"
    /\ loc[r].waiter = "sent" /\ Len(loc[r].doneCh) = 1

\* C31 as stated: no request leaves a goroutine permanently blocked -- after
\* the request returned the goroutine has ended or can end.  (No step of the
\* model ends a process that left the group, so one that cannot end now never
\* can.)
C31_NoGoroutineLeftBlocked ==
  \A r \in Reqs :
    Left(r) => loc[r].waiter = "sent" \/ WaitReturned(proc[r])

(***************************************************************************)
(* C32                                                                     *)
(***************************************************************************)
\* C32: in every ExecuteResult of ExecuteFile, Success implies ExitCode = 0,
\* a run that took the done branch, and an Output within the cap; and
\* ExitCode is non-zero only when the done branch was taken, the process
\* itself ended with that status, and the output-cap error did not replace it.
C32_SuccessAndExitCode ==
  \A r \in Reqs :
    LET res == loc[r].result
    IN ~res.nil =>
         /\ res.Success =>
               /\ res.ExitCode = 0
               /\ loc[r].selected = "done"
               /\ Len(res.Output) <= maxOutputSize
         /\ res.ExitCode # 0 =>
               /\ loc[r].selected = "done"
               /\ WaitError(proc[r]) = ExitError(res.ExitCode)
               /\ Len(res.Output) <= maxOutputSize
               /\ ~res.Success

\* a returned result with Success, and output in it
C32_Witness ==
  \E r \in Reqs :
    /\ RanToResult(r) /\ loc[r].result.Success /\ loc[r].result.Output # ""

\* a returned result with a non-zero ExitCode
C32_WitnessExit ==
  \E r \in Reqs : RanToResult(r) /\ loc[r].result.ExitCode # 0

(***************************************************************************)
(* C33                                                                     *)
(***************************************************************************)
\* the files and directories inside the sandbox working directory
InWorkDir(f) == [p \in {q \in DOMAIN f : HasPrefix(q, WORK_DIR \o "/")} |-> f[p]]

\* C33: a request that ended with the unsupported-extension error has left
\* the sandbox working directory as it was: no file in workDir was created or
\* overwritten.
C33_UnsupportedLeavesWorkDir ==
  \A r \in Reqs :
    (call[r].op = "ExecuteFile" /\ pc[r] = "done" /\ loc[r].err = "unsupported_type") =>
      InWorkDir(fs) = InWorkDir(InitialFiles)

(***************************************************************************)
(* C34                                                                     *)
(***************************************************************************)
\* C34: the number of executed code runs that /status shows equals the
\* number of executions Environment.Execute / ExecuteCode have completed and
\* counted.
C34_StatusShowsExecutions ==
  last.op = "getSystemStatus" => last.executions = executions

(***************************************************************************)
(* C35                                                                     *)
(***************************************************************************)
\* p is the root or a descendant of it
InsideRoot(p) == p = Abs(rootDir) \/ HasPrefix(p, Abs(rootDir) \o "/")

StorageOps == {"WriteFile", "ReadFile", "DeleteFile", "CopyFile"}

\* C35: WriteFile, ReadFile, DeleteFile and CopyFile only ever touch paths
\* inside the root directory: every path isPathSafe accepts is the root or a
\* descendant of it, so a path in a sibling directory whose name begins with
\* the root's name is refused, and nothing outside the root ever changes.
C35_OnlyInsideRoot ==
  /\ last.op \in StorageOps => \A p \in last.touched : InsideRoot(p)
  /\ \A p \in DOMAIN StorageFiles :
        ~InsideRoot(p) => Exists(fs, p) /\ fs[p] = StorageFiles[p]

\* what the path check does keep out: a path that leaves the root through
\* ".." is refused (no witness of the claim, which the code does not satisfy)
C35_DotDotRefused ==
  last.op \in StorageOps => "/a/c/y" \notin last.touched

(***************************************************************************)
(* C36                                                                     *)
(***************************************************************************)
\* the step is a call of AddFeedback
AddFeedbackStep == last' # last /\ last'.op = "AddFeedback"

\* C36: every successful AddFeedback returns an ID different from the IDs of
\* all items added before, so GetFeedback of it finds the item just added
\* and the item's file overwrites no earlier item's file; AddFeedback with a
\* rating outside 1..5 returns an error and leaves the items and the disk
\* unchanged.
C36_FreshID ==
  [][AddFeedbackStep =>
       /\ last'.err = "nil" =>
             LET added == collector'.items[Len(collector'.items)]
             IN /\ \A i \in 1..Len(collector.items) : collector.items[i].ID # last'.id
                /\ FindFeedback(collector'.items, last'.id) = [found |-> TRUE, item |-> added]
                /\ ~Exists(fs, FeedbackPath(added))
       /\ last'.err = "rating" => collector' = collector /\ fs' = fs]_vars

\* the part about the rating alone, which the code keeps: every rating
\* outside 1..5 is refused, with the items and the disk unchanged, and no
\* item ever holds such a rating
C36_RatingChecked ==
  /\ \A i \in 1..Len(collector.items) : collector.items[i].Rating \in 1..5
  /\ (last.op = "AddFeedback" /\ last.err = "rating") => last.id = ""

(***************************************************************************)
(* C37                                                                     *)
(***************************************************************************)
\* the part of C37 about the mutex, which the code keeps: while a caller is
\* inside Process nothing but the end of that Process changes the history,
\* the context or the sessions, and Process has put the assistant entry
\* right after the user entry when it returns
C37_ProcessAtomic ==
  [][/\ (smollm.mutex # "none" /\ smollm'.mutex # "none") =>
          smollm' = smollm /\ sessions' = sessions
     /\ (smollm.mutex # "none" /\ smollm'.mutex = "none") =>
          LET n == Len(smollm'.history)
          IN /\ smollm'.history[n].Role = "assistant"
             /\ smollm'.history[n - 1] = smollm.history[Len(smollm.history)]
             /\ smollm'.history[n - 1].Role = "user"]_vars

\* C37: after any sequence of Process and LoadSession calls the history
\* holds at most 10 entries, and each Process appends the user entry and
\* then the assistant entry atomically with respect to the other calls.
C37_HistoryBounded ==
  /\ [](smollm.mutex = "none" => Len(smollm.history) <= maxMessages)
  /\ C37_ProcessAtomic
====
